---- MODULE Spec2Model ----
(***************************************************************************)
(* A model of firejail's filesystem policy engine (fs_blacklist, globbing, *)
(* disable_file and the mount primitives) and of the namespace-join        *)
(* protocol (join).                                                        *)
(*                                                                         *)
(* Strings of the program (paths, glob patterns) are sequences of atoms:   *)
(* "/" is the path separator, "*" and "?" are the glob wildcards, "." is   *)
(* the dot, and every other atom is a run of ordinary characters.  All     *)
(* string functions (fnmatch, glob, gnu_basename, realpath) work on these  *)
(* sequences atom by atom, as the C functions work on characters.          *)
(***************************************************************************)
EXTENDS Integers, Sequences, FiniteSets, TLC

VARIABLES
    \* ---- fs_blacklist ----
    profile,        \* the entries of cfg.profile consumed so far, in order
    fs_pc,          \* "loop" while fs_blacklist walks the list, "exit" once
                    \* globbing has called exit(1), "done" after
    noblacklist,    \* the noblacklist[] array: [pat, ent] in insertion order
    mounts,         \* mount(2) calls that succeeded: set of records
    log,            \* fs_logger2 calls: set of records
    out,            \* messages on stdout/stderr that the claims speak of
    last_disable,   \* the global LAST_DISABLE_OPERATION
    uid,            \* getuid(): the real uid of the invoking user
    \* ---- join ----
    jpc,            \* position of the join() caller (the parent after fork),
                    \* "exited" after exit, "killed" when a signal ended it
    cpc,            \* position of the forked child, "none" before fork,
                    \* "killed" when its death signal ended it
    euid,           \* effective uid of the process (EUID_ROOT / EUID_USER)
    jin,            \* what join() has read from its environment so far
    jctx,           \* apply_caps, caps, apply_seccomp, cfg.cpus, cfg.cgroup,
                    \* arg_nogroups, arg_noroot
    trace,          \* calls made by the parent (and before fork), in order
    ctrace,         \* calls made by the child, in order
    jexit,          \* exit statuses: [parent, child], -1 while running
    \* ---- staging bootstrap, fs_overlayfs, fs_chroot ----
    bpc,            \* "run" while the sandbox is being built, "exited" after exit
    tmpfs_mounted,  \* the static flag of fs_build_mnt_dir
    run_fs,         \* the staging tree under /run as the current root shows it
    btrace,         \* system calls and calls of the bootstrap, in order
    bin,            \* kernel release and options of the sandbox
    bexit           \* exit status, -1 while running

fsVars   == <<profile, fs_pc, noblacklist, mounts, log, out, last_disable>>
joinVars == <<jpc, cpc, euid, jin, jctx, trace, ctrace, jexit>>
bootVars == <<bpc, tmpfs_mounted, run_fs, btrace, bin, bexit>>
vars     == <<profile, fs_pc, noblacklist, mounts, log, out, last_disable, uid,
              jpc, cpc, euid, jin, jctx, trace, ctrace, jexit,
              bpc, tmpfs_mounted, run_fs, btrace, bin, bexit>>

\* The staging bootstrap is not running.
BootIdle ==
    /\ bpc = "idle" /\ tmpfs_mounted = 0 /\ run_fs = <<>>
    /\ btrace = <<>> /\ bin = <<>> /\ bexit = -1

\* Longest profile the interpreter is run on.
MaxProfile == 2

(***************************************************************************)
(* Strings                                                                 *)
(***************************************************************************)
RECURSIVE Abs(_)
\* The absolute path made of the components comps: "/" c1 "/" c2 ...
Abs(comps) ==
    IF comps = <<>> THEN <<>>
    ELSE <<"/">> \o Head(comps) \o Abs(Tail(comps))

SeqMax(S) == CHOOSE x \in S : \A y \in S : y <= x
SeqMin(S) == CHOOSE x \in S : \A y \in S : x <= y

Slashes(p) == {i \in 1..Len(p) : p[i] = "/"}

\* gnu_basename: what follows the last "/" (the whole string if there is none).
gnu_basename(p) ==
    IF Slashes(p) = {} THEN p
    ELSE SubSeq(p, SeqMax(Slashes(p)) + 1, Len(p))

\* The directory part of an absolute path: what precedes the last "/".
Dirname(p) ==
    IF Slashes(p) = {} THEN <<>>
    ELSE SubSeq(p, 1, SeqMax(Slashes(p)) - 1)

RECURSIVE Components(_)
\* The components of an absolute path.
Components(p) ==
    IF p = <<>> THEN <<>>
    ELSE LET rest == Tail(p)
             n    == IF Slashes(rest) = {} THEN Len(rest)
                     ELSE SeqMin(Slashes(rest)) - 1
         IN  <<SubSeq(rest, 1, n)>> \o Components(SubSeq(rest, n + 1, Len(rest)))

\* q is a proper ancestor directory of p.
IsAncestor(q, p) ==
    /\ Len(q) < Len(p)
    /\ SubSeq(p, 1, Len(q)) = q
    /\ p[Len(q) + 1] = "/"

RECURSIVE Fnmatch(_, _, _)
\* fnmatch(pat, s, flags) == 0, where pathname says whether FNM_PATHNAME is in
\* flags: a wildcard then never matches a "/".  FNM_PERIOD is never passed, so
\* a wildcard does match a leading dot.
Fnmatch(pat, s, pathname) ==
    IF pat = <<>> THEN s = <<>>
    ELSE IF Head(pat) = "*" THEN
        \/ Fnmatch(Tail(pat), s, pathname)
        \/ /\ s # <<>>
           /\ (pathname => Head(s) # "/")
           /\ Fnmatch(pat, Tail(s), pathname)
    ELSE IF Head(pat) = "?" THEN
        /\ s # <<>>
        /\ (pathname => Head(s) # "/")
        /\ Fnmatch(Tail(pat), Tail(s), pathname)
    ELSE
        /\ s # <<>>
        /\ Head(s) = Head(pat)
        /\ Fnmatch(Tail(pat), Tail(s), pathname)

\* A byte that is no character of the locale.
InvalidByte == "\\377"

\* A comparison without FNM_PATHNAME.
Bad_fnmatch(pattern, string) ==
    IF \E i \in 1..Len(pattern) : pattern[i] = InvalidByte THEN "error"
    ELSE IF \E i \in 1..Len(string) : string[i] = InvalidByte THEN "error"
    ELSE IF Fnmatch(pattern, string, FALSE) THEN "0"
    ELSE "FNM_NOMATCH"

\* fnmatch(pattern, string, FNM_PATHNAME) as globbing reads it: 0, FNM_NOMATCH,
\* or another value when the pattern or the string cannot be converted to
\* characters, which is found before any matching is done.
fnmatch(pattern, string) ==
    IF \E i \in 1..Len(pattern) : pattern[i] = InvalidByte THEN "error"
    ELSE IF \E i \in 1..Len(string) : string[i] = InvalidByte THEN "error"
    ELSE IF Fnmatch(pattern, string, TRUE) THEN "0"
    ELSE "FNM_NOMATCH"

RECURSIVE Perms(_)
\* Every order in which the elements of S can be visited.
Perms(S) ==
    IF S = {} THEN {<<>>}
    ELSE UNION {{<<x>> \o p : p \in Perms(S \ {x})} : x \in S}

(***************************************************************************)
(* The filesystem the sandbox is built on                                  *)
(***************************************************************************)
c_home   == <<"home">>
c_user   == <<"user">>
c_ssh    == <<".", "ssh">>
c_bashrc == <<".", "bashrc">>
c_config == <<".", "config">>
c_notes  == <<"notes">>
c_keys   == <<"keys">>
c_usr    == <<"usr">>
c_bin    == <<"bin">>
c_ls     == <<"ls">>
c_mnt    == <<"mnt">>
c_data   == <<"data">>
c_tools  == <<"tools">>

p_home   == Abs(<<c_home>>)
p_user   == Abs(<<c_home, c_user>>)
p_ssh    == Abs(<<c_home, c_user, c_ssh>>)
p_bashrc == Abs(<<c_home, c_user, c_bashrc>>)
p_config == Abs(<<c_home, c_user, c_config>>)
p_notes  == Abs(<<c_home, c_user, c_notes>>)
p_keys   == Abs(<<c_home, c_user, c_keys>>)
p_usr    == Abs(<<c_usr>>)
p_usrbin == Abs(<<c_usr, c_bin>>)
p_ls     == Abs(<<c_usr, c_bin, c_ls>>)
p_bin    == Abs(<<c_bin>>)
p_mnt    == Abs(<<c_mnt>>)
p_fuse_d == Abs(<<c_mnt, <<"fuse_d">>>>)
p_fuse_f == Abs(<<c_mnt, <<"fuse_f">>>>)
p_fuse_x == Abs(<<c_mnt, <<"fuse_x">>>>)
p_data   == Abs(<<c_data>>)
p_tools  == Abs(<<c_home, c_user, c_tools>>)

Node(p, t, tgt, u, na, mt) ==
    [path |-> p, type |-> t, target |-> tgt, uid |-> u, gid |-> u,
     noaccess |-> na, mountable |-> mt]

\* The files of the host: directories, regular files, symbolic links (two of
\* them, /bin and /home/user/tools, lead to /usr/bin), and
\* (the empty path is the root directory) three entries of a filesystem that
\* refuses root (realpath fails with
\* EACCES on them): a directory and a file a bind mount can still cover, and
\* an entry on which every mount fails.  /data does not exist.
FS ==
    { Node(<<>>,     "dir",  <<>>,     0,    FALSE, TRUE),
      Node(p_home,   "dir",  <<>>,     0,    FALSE, TRUE),
      Node(p_user,   "dir",  <<>>,     1000, FALSE, TRUE),
      Node(p_ssh,    "dir",  <<>>,     1000, FALSE, TRUE),
      Node(p_bashrc, "file", <<>>,     1000, FALSE, TRUE),
      Node(p_config, "dir",  <<>>,     1000, FALSE, TRUE),
      Node(p_notes,  "file", <<>>,     1000, FALSE, TRUE),
      Node(p_keys,   "link", p_ssh,    1000, FALSE, TRUE),
      Node(p_tools,  "link", p_usrbin, 1000, FALSE, TRUE),
      Node(p_usr,    "dir",  <<>>,     0,    FALSE, TRUE),
      Node(p_usrbin, "dir",  <<>>,     0,    FALSE, TRUE),
      Node(p_ls,     "file", <<>>,     0,    FALSE, TRUE),
      Node(p_bin,    "link", p_usrbin, 0,    FALSE, TRUE),
      Node(p_mnt,    "dir",  <<>>,     0,    FALSE, TRUE),
      Node(p_fuse_d, "dir",  <<>>,     1000, TRUE,  TRUE),
      Node(p_fuse_f, "file", <<>>,     1000, TRUE,  TRUE),
      Node(p_fuse_x, "dir",  <<>>,     1000, TRUE,  FALSE) }

HasNode(p) == \E n \in FS : n.path = p
NodeAt(p)  == CHOOSE n \in FS : n.path = p

\* The denial donors and the source names of the other mounts.
RUN_RO_DIR  == Abs(<<<<"run">>, <<"firejail">>, <<"firejail", ".", "ro", ".", "dir">>>>)
RUN_RO_FILE == Abs(<<<<"run">>, <<"firejail">>, <<"firejail", ".", "ro", ".", "file">>>>)
TmpfsSrc    == <<"tmpfs">>
Donors      == {RUN_RO_DIR, RUN_RO_FILE}

\* A mount that replaces what is seen at its target: an empty donor or an
\* empty tmpfs.  (A self-bind or a remount shows the same tree.)
Covers(mr) == mr.src \in Donors \cup {TmpfsSrc}

\* p is a name of the current mount namespace: it is a file of the host and
\* no directory above it has been covered by an empty donor or tmpfs.
Visible(p, m) ==
    /\ HasNode(p)
    /\ \A mr \in m : Covers(mr) => ~IsAncestor(mr.dst, p)

ENOENT == [err |-> "ENOENT", path |-> <<>>]
EACCES == [err |-> "EACCES", path |-> <<>>]

RECURSIVE Resolve(_, _, _)
\* realpath's walk: cur is the canonical prefix, comps the components left.
Resolve(cur, comps, m) ==
    IF comps = <<>> THEN [err |-> "ok", path |-> cur]
    ELSE IF Head(comps) = <<".">> THEN Resolve(cur, Tail(comps), m)
    ELSE IF Head(comps) = <<".", ".">> THEN Resolve(Dirname(cur), Tail(comps), m)
    ELSE LET nxt == cur \o <<"/">> \o Head(comps)
         IN  IF ~Visible(nxt, m) THEN ENOENT
             ELSE IF NodeAt(nxt).noaccess THEN EACCES
             ELSE IF NodeAt(nxt).type = "link" THEN
                 LET t == Resolve(<<>>, Components(NodeAt(nxt).target), m)
                 IN  IF t.err # "ok" THEN t
                     ELSE Resolve(t.path, Tail(comps), m)
             ELSE IF Tail(comps) # <<>> /\ NodeAt(nxt).type # "dir" THEN ENOENT
             ELSE Resolve(nxt, Tail(comps), m)

\* realpath(filename, NULL): every symbolic link resolved, or errno.
Realpath(filename, m) == Resolve(<<>>, Components(filename), m)

\* stat(fname) of a canonical, visible path: the snapshot {type, uid, gid}.
\* A path covered by a donor shows the donor, which root owns.
Stat(fname, m) ==
    LET n == NodeAt(fname)
        covered == \E mr \in m : mr.dst = fname /\ mr.src \in Donors
    IN  [type |-> n.type,
         uid  |-> IF covered THEN 0 ELSE n.uid,
         gid  |-> IF covered THEN 0 ELSE n.gid]

\* is_link(filename): lstat says the name itself is a symbolic link.
is_link(filename, m) ==
    Visible(filename, m) /\ NodeAt(filename).type = "link"

\* The names readdir can return: the visible files, and "." and ".." in
\* every directory that can be read.
NameUniverse(m) ==
    LET vis  == {n.path : n \in {x \in FS : Visible(x.path, m)}}
        dirs == {p \in vis : NodeAt(p).type = "dir" /\ ~NodeAt(p).noaccess}
    IN  vis \cup {d \o <<"/", ".">> : d \in dirs}
            \cup {d \o <<"/", ".", ".">> : d \in dirs}

\* The pattern holds a wildcard.
HasWildcard(pattern) == \E i \in 1..Len(pattern) : pattern[i] \in {"*", "?"}

\* glob(pattern, GLOB_NOCHECK | GLOB_NOSORT | GLOB_PERIOD): the names that
\* match (a wildcard matches a leading dot but never a "/"), and the pattern
\* itself when nothing matches.  The order is not specified.  A pattern
\* without a wildcard matches its own name or nothing, and is returned in
\* both cases.
Glob(pattern, m) ==
    IF ~HasWildcard(pattern) THEN {pattern}
    ELSE LET hits == {n \in NameUniverse(m) : Fnmatch(pattern, n, TRUE)}
         IN  IF hits = {} THEN {pattern} ELSE hits

(***************************************************************************)
(* disable_file and the mount primitives.  They work on the record         *)
(*   st = [mounts, log, out, last_disable]                                 *)
(* and return it as the call leaves it.  ent is the position of the        *)
(* directive being processed and cand the name globbing passed on; both    *)
(* are kept in every record so that an effect can be traced to its cause.  *)
(***************************************************************************)
MountRec(ent, cand, src, dst, fstype, flags) ==
    [ent |-> ent, cand |-> cand, src |-> src, dst |-> dst,
     fstype |-> fstype, flags |-> flags]

\* mount(source, target, ...) succeeded: the call is added to the mount table.
DoMount(st, mr) == [st EXCEPT !.mounts = @ \cup {mr}]

\* fs_logger2(msg, path)
fs_logger2(st, ent, cand, msg, path) ==
    [st EXCEPT !.log = @ \cup {[ent |-> ent, cand |-> cand, msg |-> msg, path |-> path]}]

\* A message on stdout/stderr, or a chown/chmod call.
Emit(st, ent, cand, kind, path, u, g) ==
    [st EXCEPT !.out = @ \cup {[ent |-> ent, cand |-> cand, kind |-> kind,
                                path |-> path, uid |-> u, gid |-> g]}]

\* The flags mount(2) keeps for each mount point.
PerMountFlags == {"MS_RDONLY", "MS_NOSUID", "MS_NODEV", "MS_NOEXEC"}

RECURSIVE MountFlags(_, _, _)
\* What the mount calls of entries 1..i leave as the flags of the mount on top
\* of path p.  A remount with MS_BIND | MS_REMOUNT sets the flags of the mount
\* point to the ones passed and clears the others; a new tmpfs has the flags
\* it was mounted with; a bind without MS_REMOUNT makes a mount with the flags
\* of the mount it was taken from.  The host starts with none set.
MountFlags(p, m, i) ==
    IF i = 0 THEN {}
    ELSE LET here == {mr \in m : mr.ent = i /\ mr.dst = p}
             re   == {mr \in here : "MS_REMOUNT" \in mr.flags}
             new  == {mr \in here : "MS_BIND" \notin mr.flags}
         IN  IF re # {} THEN UNION {mr.flags \cap PerMountFlags : mr \in re}
             ELSE IF new # {} THEN UNION {mr.flags \cap PerMountFlags : mr \in new}
             ELSE IF here # {}
                THEN UNION {MountFlags(mr.src, m, i - 1) : mr \in here}
             ELSE MountFlags(p, m, i - 1)

\* An fs_rdonly whose remount leaves MS_RDONLY out.
Bad_fs_rdonly(dir, st, ent, cand) ==
    IF ~Visible(dir, st.mounts) THEN st
    ELSE LET s1 == DoMount(st, MountRec(ent, cand, dir, dir, "none", {"MS_BIND", "MS_REC"}))
             s2 == DoMount(s1, MountRec(ent, cand, <<>>, dir, "none",
                                  {"MS_BIND", "MS_REMOUNT", "MS_REC"}))
         IN  fs_logger2(s2, ent, cand, "read-only", dir)

\* fs_rdonly(dir)
fs_rdonly(dir, st, ent, cand) ==
    IF ~Visible(dir, st.mounts) THEN st
    ELSE LET s1 == DoMount(st, MountRec(ent, cand, dir, dir, "none", {"MS_BIND", "MS_REC"}))
             s2 == DoMount(s1, MountRec(ent, cand, <<>>, dir, "none",
                                  {"MS_BIND", "MS_REMOUNT", "MS_RDONLY", "MS_REC"}))
         IN  fs_logger2(s2, ent, cand, "read-only", dir)

\* An fs_rdwr that does not look at the owner.
Bad_fs_rdwr(dir, st, ent, cand, u) ==
    IF ~Visible(dir, st.mounts) THEN st
    ELSE LET s1 == DoMount(st, MountRec(ent, cand, dir, dir, "none", {"MS_BIND", "MS_REC"}))
             s2 == DoMount(s1, MountRec(ent, cand, <<>>, dir, "none",
                                  {"MS_BIND", "MS_REMOUNT", "MS_REC"}))
         IN  fs_logger2(s2, ent, cand, "read-write", dir)

\* fs_rdwr(dir): refused for a non-root user who does not own dir.
fs_rdwr(dir, st, ent, cand, u) ==
    IF ~Visible(dir, st.mounts) THEN st
    ELSE IF u # 0 /\ Stat(dir, st.mounts).uid # u THEN
        Emit(st, ent, cand, "warning-rdwr", dir, -1, -1)
    ELSE LET s1 == DoMount(st, MountRec(ent, cand, dir, dir, "none", {"MS_BIND", "MS_REC"}))
             s2 == DoMount(s1, MountRec(ent, cand, <<>>, dir, "none",
                                  {"MS_BIND", "MS_REMOUNT", "MS_REC"}))
         IN  fs_logger2(s2, ent, cand, "read-write", dir)

\* fs_noexec(dir)
fs_noexec(dir, st, ent, cand) ==
    IF ~Visible(dir, st.mounts) THEN st
    ELSE LET s1 == DoMount(st, MountRec(ent, cand, dir, dir, "none", {"MS_BIND", "MS_REC"}))
             s2 == DoMount(s1, MountRec(ent, cand, <<>>, dir, "none",
                                  {"MS_BIND", "MS_REMOUNT", "MS_NOEXEC", "MS_NODEV",
                                   "MS_NOSUID", "MS_REC"}))
         IN  fs_logger2(s2, ent, cand, "noexec", dir)

\* mount(donor, filename, "none", MS_BIND, ...) on a name realpath could not
\* reach: it succeeds when the filesystem lets the mount through and the
\* donor and the target are both directories or both files.
ForcedBindOk(donor, filename) ==
    /\ HasNode(filename)
    /\ NodeAt(filename).mountable
    /\ (donor = RUN_RO_DIR) = (NodeAt(filename).type = "dir")

BlacklistMsg(op) == IF op = "BLACKLIST_FILE" THEN "blacklist" ELSE "blacklist-nolog"

\* A forced denial that stops after the directory donor.
Bad_ForcedDisable(op, filename, st, ent) ==
    LET rec(d) == MountRec(ent, filename, d, filename, "none", {"MS_BIND"})
        s1 == IF ForcedBindOk(RUN_RO_DIR, filename)
                 THEN [DoMount(st, rec(RUN_RO_DIR)) EXCEPT !.last_disable = "SUCCESSFUL"]
              ELSE st
    IN  IF s1.last_disable = "SUCCESSFUL"
           THEN fs_logger2(s1, ent, filename, BlacklistMsg(op), filename)
        ELSE s1

\* disable_file, lines 213-241: realpath failed with EACCES.  The directory
\* donor is tried first, then the file donor; op is not looked at before the
\* mounts, only to choose the log message.
ForcedDisable(op, filename, st, ent) ==
    LET rec(d) == MountRec(ent, filename, d, filename, "none", {"MS_BIND"})
        s1 == IF ForcedBindOk(RUN_RO_DIR, filename)
                 THEN [DoMount(st, rec(RUN_RO_DIR)) EXCEPT !.last_disable = "SUCCESSFUL"]
              ELSE IF ForcedBindOk(RUN_RO_FILE, filename)
                 THEN [DoMount(st, rec(RUN_RO_FILE)) EXCEPT !.last_disable = "SUCCESSFUL"]
              ELSE st
    IN  IF s1.last_disable = "SUCCESSFUL"
           THEN fs_logger2(s1, ent, filename, BlacklistMsg(op), filename)
        ELSE s1

\* The exemption of line 257: the canonical name is /bin or /usr/bin, the
\* name given is itself a symbolic link, and the target is a directory.
BinLinkExempt(filename, fname, s, m) ==
    /\ fname \in {p_bin, p_usrbin}
    /\ is_link(filename, m)
    /\ s.type = "dir"

\* A choice of donor that forgets the directory donor.
Bad_DonorFor(s) == RUN_RO_FILE

\* The donor for a target with snapshot s.
DonorFor(s) == IF s.type = "dir" THEN RUN_RO_DIR ELSE RUN_RO_FILE

\* disable_file, lines 255-286: op is BLACKLIST_FILE or BLACKLIST_NOLOG.
Blacklist(op, filename, fname, s, st, ent) ==
    IF BinLinkExempt(filename, fname, s, st.mounts)
       THEN Emit(st, ent, filename, "warning-binlink", filename, -1, -1)
    ELSE LET s1 == DoMount(st, MountRec(ent, filename, DonorFor(s), fname, "none", {"MS_BIND"}))
             s2 == [s1 EXCEPT !.last_disable = "SUCCESSFUL"]
         IN  fs_logger2(s2, ent, filename, BlacklistMsg(op), fname)

\* A tmpfs replacement that leaves the new mount point to root.
Bad_MountTmpfs(filename, fname, s, st, ent) ==
    IF s.type = "dir"
       THEN LET s1 == DoMount(st, MountRec(ent, filename, TmpfsSrc, fname, "tmpfs",
                                   {"MS_NOSUID", "MS_NODEV", "MS_STRICTATIME", "MS_REC"}))
                s2 == Emit(s1, ent, filename, "chown", fname, 0, 0)
                s3 == [s2 EXCEPT !.last_disable = "SUCCESSFUL"]
            IN  fs_logger2(s3, ent, filename, "tmpfs", fname)
    ELSE Emit(st, ent, filename, "warning-tmpfs", fname, -1, -1)

\* disable_file, lines 305-320: op is MOUNT_TMPFS.
MountTmpfs(filename, fname, s, st, ent) ==
    IF s.type = "dir"
       THEN LET s1 == DoMount(st, MountRec(ent, filename, TmpfsSrc, fname, "tmpfs",
                                   {"MS_NOSUID", "MS_NODEV", "MS_STRICTATIME", "MS_REC"}))
                s2 == Emit(s1, ent, filename, "chown", fname, s.uid, s.gid)
                s3 == [s2 EXCEPT !.last_disable = "SUCCESSFUL"]
            IN  fs_logger2(s3, ent, filename, "tmpfs", fname)
    ELSE Emit(st, ent, filename, "warning-tmpfs", fname, -1, -1)

\* disable_file, lines 243-324: realpath gave fname.  Nothing is done when
\* stat fails on it; otherwise op chooses what is mounted.
Dispatch(op, filename, fname, st, ent, u) ==
    IF ~Visible(fname, st.mounts) THEN st
    ELSE LET s == Stat(fname, st.mounts)
         IN  CASE op \in {"BLACKLIST_FILE", "BLACKLIST_NOLOG"} ->
                      Blacklist(op, filename, fname, s, st, ent)
               [] op = "MOUNT_READONLY" -> fs_rdonly(fname, st, ent, filename)
               [] op = "MOUNT_RDWR"     -> fs_rdwr(fname, st, ent, filename, u)
               [] op = "MOUNT_NOEXEC"   -> fs_noexec(fname, st, ent, filename)
               [] op = "MOUNT_TMPFS"    -> MountTmpfs(filename, fname, s, st, ent)

\* A disable_file that logs the request before it looks at the path.
Bad_disable_file(op, filename, st, ent, u) ==
    LET st0 == fs_logger2([st EXCEPT !.last_disable = "UNSUCCESSFUL"], ent, filename,
                          BlacklistMsg(op), filename)
        r   == Realpath(filename, st0.mounts)
    IN  IF r.err = "ENOENT" THEN st0
        ELSE IF r.err = "EACCES" THEN ForcedDisable(op, filename, st0, ent)
        ELSE Dispatch(op, filename, r.path, st0, ent, u)

\* disable_file(op, filename), run by the user u.
disable_file(op, filename, st, ent, u) ==
    LET st0 == [st EXCEPT !.last_disable = "UNSUCCESSFUL"]
        r   == Realpath(filename, st0.mounts)
    IN  IF r.err = "ENOENT" THEN st0
        ELSE IF r.err = "EACCES" THEN ForcedDisable(op, filename, st0, ent)
        ELSE Dispatch(op, filename, r.path, st0, ent, u)

(***************************************************************************)
(* globbing                                                                *)
(***************************************************************************)
\* A test that lets ".." through.
Bad_IsDotEntry(path) == gnu_basename(path) = <<".">>

\* Lines 345-347: the candidates whose basename is "." or "..".
IsDotEntry(path) == gnu_basename(path) \in {<<".">>, <<".", ".">>}

\* A loop that stops one short of the last pattern of the array.
Bad_OkayToBlacklist(path, nbl) ==
    \A j \in 1..(Len(nbl) - 1) : ~Fnmatch(nbl[j].pat, path, TRUE)

\* Lines 349-362: the loop over the array ends with okay_to_blacklist still
\* true: every comparison said FNM_NOMATCH.
OkayToBlacklist(path, nbl) ==
    \A j \in 1..Len(nbl) : fnmatch(nbl[j].pat, path) = "FNM_NOMATCH"

\* Lines 358-361: the loop over the array reaches a comparison that is neither
\* a match nor FNM_NOMATCH before any pattern matches.
CompareFails(path, nbl) ==
    \E j \in 1..Len(nbl) :
        /\ fnmatch(nbl[j].pat, path) = "error"
        /\ \A k \in 1..(j - 1) : fnmatch(nbl[k].pat, path) = "FNM_NOMATCH"

\* exit(1) has been called from globbing.
Exited(st) == \E o \in st.out : o.kind = "error-fnmatch"

RECURSIVE DisableAll(_, _, _, _, _, _)
\* Lines 348-367: the loop over the names of the sequence ord, in turn, once
\* "." and ".." have been passed over.
DisableAll(op, ord, nbl, st, ent, u) ==
    IF ord = <<>> THEN st
    ELSE IF CompareFails(Head(ord), nbl)
        THEN Emit(st, ent, Head(ord), "error-fnmatch", Head(ord), -1, -1)
    ELSE IF OkayToBlacklist(Head(ord), nbl)
        THEN DisableAll(op, Tail(ord), nbl,
                        disable_file(op, Head(ord), st, ent, u), ent, u)
    ELSE DisableAll(op, Tail(ord), nbl, st, ent, u)

\* The names globbing passes to disable_file for pattern when no comparison
\* fails.
Forwarded(pattern, nbl, m) ==
    {c \in Glob(pattern, m) : ~IsDotEntry(c) /\ OkayToBlacklist(c, nbl)}

\* globbing(op, pattern, noblacklist, len): the states it can end in, one for
\* each order in which glob may return the matches.  Lines 345-347 pass over
\* "." and "..", wherever they come in that order.
globbing(op, pattern, nbl, st, ent, u) ==
    LET names == {c \in Glob(pattern, st.mounts) : ~IsDotEntry(c)}
    IN  {DisableAll(op, ord, nbl, st, ent, u) : ord \in Perms(names)}

(***************************************************************************)
(* fs_blacklist: the interpreter of the profile                            *)
(***************************************************************************)
\* A profile entry is its text up to and including the first blank (kw) and
\* the rest of the line (arg).
Entry(kw, arg) == [kw |-> kw, arg |-> arg]

HomeMacro == <<"${HOME}">>
PathMacro == <<"${PATH}">>

\* cfg.homedir
homedir == p_user

\* expand_home(path, homedir): a leading ${HOME} is replaced by homedir.
expand_home(path) ==
    IF path # <<>> /\ Head(path) = "${HOME}" THEN homedir \o Tail(path)
    ELSE path

\* build_paths(): the executable search directories.
build_paths ==
    << Abs(<<c_usr, <<"local">>, c_bin>>), Abs(<<c_usr, <<"local">>, <<"sbin">>>>),
       p_bin, p_usrbin, Abs(<<<<"sbin">>>>), Abs(<<c_usr, <<"sbin">>>>) >>

\* split_comma: the two halves of "a,b", or <<>> when there is no comma.
split_comma(arg) ==
    LET cs == {i \in 1..Len(arg) : arg[i] = ","}
    IN  IF cs = {} THEN <<>>
        ELSE <<SubSeq(arg, 1, SeqMin(cs) - 1), SubSeq(arg, SeqMin(cs) + 1, Len(arg))>>

\* The entries a profile is made of.
Directives ==
    { Entry("noblacklist ",     p_ssh),
      Entry("noblacklist ",     PathMacro \o <<"/">> \o c_ls),
      Entry("noblacklist ",     p_user \o <<"/", InvalidByte>>),
      Entry("noblacklist ",     p_home \o <<"/", "*">>),
      Entry("blacklist ",       p_user \o <<"/", ".", "*">>),
      Entry("blacklist ",       p_ssh),
      Entry("blacklist ",       HomeMacro \o <<"/">> \o c_keys),
      Entry("blacklist ",       p_user),
      Entry("blacklist ",       p_data),
      Entry("blacklist ",       p_bin),
      Entry("blacklist ",       p_tools),
      Entry("blacklist ",       p_mnt \o <<"/", "*">>),
      Entry("blacklist-nolog ", p_bashrc),
      Entry("blacklist-nolog ", PathMacro \o <<"/">> \o c_ls),
      Entry("blacklist-nolog ", p_data \o <<"/", "*">>),
      Entry("read-only ",       p_user),
      Entry("read-only ",       p_fuse_d),
      Entry("read-write ",      p_usr),
      Entry("read-write ",      p_fuse_f),
      Entry("read-write ",      p_config),
      Entry("noexec ",          p_user),
      Entry("noexec ",          p_fuse_x),
      Entry("tmpfs ",           p_user),
      Entry("tmpfs ",           p_fuse_d),
      Entry("tmpfs ",           p_bashrc),
      Entry("bind ",            p_notes \o <<",">> \o p_bashrc),
      Entry("bind ",            p_data \o <<",">> \o p_bashrc),
      Entry("bind ",            p_notes \o <<",">> \o p_data),
      Entry("whitelist ",       p_notes),
      Entry("frobnicate ",      p_notes) }

\* Lines 392-404: the entries fs_blacklist leaves to others.
Ignored(d) ==
    d.kw \in {"whitelist ", "", "args-path ", "args-whitelist ", "args-read-only ",
              "args-noexec "}

\* Lines 485-508: the operation a keyword stands for.
Operations ==
    [k \in {"blacklist ", "blacklist-nolog ", "read-only ", "read-write ", "noexec ", "tmpfs "} |->
        CASE k = "blacklist "       -> "BLACKLIST_FILE"
          [] k = "blacklist-nolog " -> "BLACKLIST_NOLOG"
          [] k = "read-only "       -> "MOUNT_READONLY"
          [] k = "read-write "      -> "MOUNT_RDWR"
          [] k = "noexec "          -> "MOUNT_NOEXEC"
          [] k = "tmpfs "           -> "MOUNT_TMPFS"]

IsOperation(d) == d.kw \in DOMAIN Operations

St == [mounts |-> mounts, log |-> log, out |-> out, last_disable |-> last_disable]

\* The position of the entry being processed.
Ent == Len(profile) + 1

\* entry = entry->next, with d the entry that was processed.
Advance(d) ==
    /\ profile' = Append(profile, d)
    /\ fs_pc' = "loop"
    /\ UNCHANGED <<uid, joinVars, bootVars>>

SetSt(st) ==
    /\ mounts' = st.mounts
    /\ log' = st.log
    /\ out' = st.out
    /\ last_disable' = st.last_disable

\* Lines 392-404: whitelist, empty and args- entries are skipped.
FsSkip ==
    \E d \in Directives :
        /\ fs_pc = "loop" /\ Len(profile) < MaxProfile
        /\ Ignored(d)
        /\ Advance(d)
        /\ UNCHANGED <<noblacklist, mounts, log, out, last_disable>>

\* A bind that does not look for its destination.
Bad_FsBind ==
    \E d \in Directives :
        /\ fs_pc = "loop" /\ Len(profile) < MaxProfile
        /\ ~Ignored(d) /\ d.kw = "bind "
        /\ LET ds == split_comma(d.arg)
           IN  IF ds = <<>>
                  THEN SetSt(Emit(St, Ent, d.arg, "error-bind", d.arg, -1, -1))
               ELSE IF Realpath(ds[1], mounts).err # "ok"
                  THEN SetSt(Emit(St, Ent, d.arg, "error-bind", ds[1], -1, -1))
               ELSE SetSt(DoMount(St, MountRec(Ent, d.arg, ds[1], ds[2], "none",
                                               {"MS_BIND", "MS_REC"})))
        /\ Advance(d)
        /\ UNCHANGED noblacklist

\* Lines 407-442: bind.
FsBind ==
    \E d \in Directives :
        /\ fs_pc = "loop" /\ Len(profile) < MaxProfile
        /\ ~Ignored(d) /\ d.kw = "bind "
        /\ LET ds == split_comma(d.arg)
           IN  IF ds = <<>>
                  THEN SetSt(Emit(St, Ent, d.arg, "error-bind", d.arg, -1, -1))
               ELSE IF Realpath(ds[1], mounts).err # "ok"
                  THEN SetSt(Emit(St, Ent, d.arg, "error-bind", ds[1], -1, -1))
               ELSE IF Realpath(ds[2], mounts).err # "ok"
                  THEN SetSt(Emit(St, Ent, d.arg, "error-bind", ds[2], -1, -1))
               ELSE LET s  == Stat(Realpath(ds[2], mounts).path, mounts)
                        s1 == DoMount(St, MountRec(Ent, d.arg, ds[1], ds[2], "none",
                                                   {"MS_BIND", "MS_REC"}))
                        s2 == Emit(s1, Ent, d.arg, "chown", ds[2], s.uid, s.gid)
                        s3 == Emit(s2, Ent, d.arg, "chmod", ds[2], -1, -1)
                    IN  SetSt(s3)
        /\ Advance(d)
        /\ UNCHANGED noblacklist

\* Lines 451-462: the names a noblacklist entry stands for.
NoblacklistNames(arg) ==
    IF arg # <<>> /\ Head(arg) = "${PATH}"
       THEN [i \in 1..Len(build_paths) |-> build_paths[i] \o Tail(arg)]
    ELSE <<expand_home(arg)>>

\* Lines 445-482: noblacklist appends its names to the array.
FsNoblacklist ==
    \E d \in Directives :
        /\ fs_pc = "loop" /\ Len(profile) < MaxProfile
        /\ ~Ignored(d) /\ d.kw = "noblacklist "
        /\ LET en == NoblacklistNames(d.arg)
           IN  noblacklist' = noblacklist \o [i \in 1..Len(en) |-> [pat |-> en[i], ent |-> Ent]]
        /\ Advance(d)
        /\ UNCHANGED <<mounts, log, out, last_disable>>

\* Lines 516-533: the patterns an operation entry is globbed with.
OperationPatterns(arg) ==
    LET ptr == expand_home(arg)
    IN  IF ptr # <<>> /\ Head(ptr) = "${PATH}"
           THEN [i \in 1..Len(build_paths) |-> build_paths[i] \o Tail(ptr)]
        ELSE <<ptr>>

RECURSIVE GlobbingEach(_, _, _, _, _, _)
\* globbing on each pattern of pats in turn: the states that can result.
GlobbingEach(op, pats, nbl, st, ent, u) ==
    IF pats = <<>> \/ Exited(st) THEN {st}
    ELSE UNION {GlobbingEach(op, Tail(pats), nbl, s1, ent, u) :
                    s1 \in globbing(op, Head(pats), nbl, st, ent, u)}

\* Lines 485-540: blacklist, blacklist-nolog, read-only, read-write, noexec
\* and tmpfs.  The loop goes on unless globbing has ended the process.
FsOperation ==
    \E d \in Directives :
        /\ fs_pc = "loop" /\ Len(profile) < MaxProfile
        /\ ~Ignored(d) /\ d.kw \notin {"bind ", "noblacklist "}
        /\ IsOperation(d)
        /\ \E st \in GlobbingEach(Operations[d.kw], OperationPatterns(d.arg),
                                  noblacklist, St, Ent, uid) :
              /\ SetSt(st)
              /\ fs_pc' = IF Exited(st) THEN "exit" ELSE "loop"
        /\ profile' = Append(profile, d)
        /\ UNCHANGED <<noblacklist, uid, joinVars, bootVars>>

\* Lines 509-513: any other text is reported and the loop goes on.
FsInvalid ==
    \E d \in Directives :
        /\ fs_pc = "loop" /\ Len(profile) < MaxProfile
        /\ ~Ignored(d) /\ d.kw \notin {"bind ", "noblacklist "}
        /\ ~IsOperation(d)
        /\ SetSt(Emit(St, Ent, d.arg, "error-invalid", d.arg, -1, -1))
        /\ Advance(d)
        /\ UNCHANGED noblacklist

\* Lines 387, 543-546: the list is exhausted and fs_blacklist returns.
FsReturn ==
    /\ fs_pc = "loop"
    /\ fs_pc' = "done"
    /\ UNCHANGED <<profile, noblacklist, mounts, log, out, last_disable, uid, joinVars, bootVars>>

JoinIdle ==
    /\ jpc = "idle" /\ cpc = "none" /\ euid = 0
    /\ jin = <<>> /\ jctx = <<>> /\ trace = <<>> /\ ctrace = <<>> /\ jexit = <<>>

InitFs ==
    /\ profile = <<>> /\ fs_pc = "loop" /\ noblacklist = <<>>
    /\ mounts = {} /\ log = {} /\ out = {}
    /\ last_disable = "UNSUCCESSFUL"
    /\ uid \in {0, 1000}
    /\ JoinIdle
    /\ BootIdle

NextFs == FsSkip \/ FsBind \/ FsNoblacklist \/ FsOperation \/ FsInvalid \/ FsReturn

SpecFs == InitFs /\ [][NextFs]_vars

(***************************************************************************)
(* join.c: the namespace-join protocol                                     *)
(***************************************************************************)
\* The build has seccomp support (the #ifdef of lines 295-306 is compiled in).
HAVE_SECCOMP == TRUE

\* One call made by join(): its name, the namespace or message it is about,
\* and its numeric argument or result.
Ev(call, ns, val) == [call |-> call, ns |-> ns, val |-> val]

Line(key, val) == [key |-> key, val |-> val]

\* /proc/<pid>/status as the kernel writes it: the capability bounding set
\* comes before the seccomp mode, and either line may be missing on a kernel
\* built without the feature.
StatusFiles ==
    { <<Line("Name:", 0)>> \o c \o sc \o <<Line("Cpus_allowed:", 3)>> :
        c  \in {<<>>} \cup {<<Line("CapBnd:", v)>> : v \in {0, 5}},
        sc \in {<<>>} \cup {<<Line("Seccomp:", v)>> : v \in 0..2} }

\* The static variables of join.c and the configuration join() fills in, as
\* they are when join() is entered.
Ctx0 ==
    [apply_caps |-> 0, caps |-> 0, apply_seccomp |-> 0,
     cpus |-> FALSE, cgroup |-> FALSE, nogroups |-> 0, noroot |-> 0]

RECURSIVE ScanStatus(_, _)
\* extract_caps_seccomp, lines 122-139: the lines are read in order up to and
\* including the first "Seccomp:" line.
ScanStatus(lines, ctx) ==
    IF lines = <<>> THEN ctx
    ELSE IF Head(lines).key = "Seccomp:" THEN
        IF Head(lines).val = 2 THEN [ctx EXCEPT !.apply_seccomp = 1] ELSE ctx
    ELSE IF Head(lines).key = "CapBnd:" THEN
        ScanStatus(Tail(lines), [ctx EXCEPT !.apply_caps = 1, !.caps = Head(lines).val])
    ELSE ScanStatus(Tail(lines), ctx)

\* An extraction that enforces seccomp for any non-zero mode.
Bad_extract_caps_seccomp(status, ctx) ==
    [ScanStatus(status, ctx) EXCEPT
        !.apply_seccomp = IF \E i \in 1..Len(status) :
                                 status[i].key = "Seccomp:" /\ status[i].val >= 1
                             THEN 1 ELSE 0]

\* An extraction that reads the mask but forgets to set apply_caps.
Bad2_extract_caps_seccomp(status, ctx) ==
    [ScanStatus(status, ctx) EXCEPT !.apply_caps = 0]

\* extract_caps_seccomp on a status file that could be opened.
extract_caps_seccomp(status, ctx) == ScanStatus(status, ctx)

\* extract_nogroups, extract_cpu, extract_cgroup (lines 67-106): the marker
\* or configuration file under /proc/<pid>/root exists, or nothing is done.
extract_nogroups(exists, ctx) == IF exists THEN [ctx EXCEPT !.nogroups = 1] ELSE ctx
extract_cpu(exists, ctx)      == IF exists THEN [ctx EXCEPT !.cpus = TRUE] ELSE ctx
extract_cgroup(exists, ctx)   == IF exists THEN [ctx EXCEPT !.cgroup = TRUE] ELSE ctx

\* What extract_user_namespace finds: no user namespaces or no uid_map
\* (ok = FALSE), or the first two numbers of /proc/<pid>/uid_map.
UidMaps ==
    { [ok |-> FALSE, u1 |-> 0, u2 |-> 0], [ok |-> TRUE, u1 |-> 0, u2 |-> 0],
      [ok |-> TRUE, u1 |-> 0, u2 |-> 1000] }

\* extract_user_namespace, lines 144-176.
extract_user_namespace(map, ctx) ==
    IF map.ok /\ (map.u1 # 0 \/ map.u2 # 0) THEN [ctx EXCEPT !.noroot = 1] ELSE ctx

\* A full join that leaves the pid namespace out.
Bad_NsList(mode) ==
    CASE mode = "net" -> <<"net">>
      [] mode = "mnt" -> <<"mnt">>
      [] OTHER        -> <<"ipc", "net", "uts", "mnt">>

\* The namespaces join() enters, lines 239-258.
NsList(mode) ==
    CASE mode = "net" -> <<"net">>
      [] mode = "mnt" -> <<"mnt">>
      [] OTHER        -> <<"ipc", "net", "pid", "uts", "mnt">>

Calls(tr, call) == {i \in 1..Len(tr) : tr[i].call = call}

\* The process leaves with exit(status).
ParentExit(status) ==
    /\ jpc' = "exited"
    /\ jexit' = [jexit EXCEPT !.parent = status]

ChildExit(status) ==
    /\ cpc' = "exited"
    /\ jexit' = [jexit EXCEPT !.child = status]

\* Lines 193-197 and 41-65: extract_command.  An option where the command
\* should be is refused.
JoinExtractCommand ==
    /\ jpc = "start"
    /\ trace' = Append(trace, Ev("extract_command", jin.cmd, 0))
    /\ IF jin.cmd = "invalid"
          THEN ParentExit(1)
       ELSE jpc' = "comm" /\ UNCHANGED jexit
    /\ UNCHANGED <<cpc, euid, jin, jctx, ctrace, uid, fsVars, bootVars>>

\* Lines 199-212: a firejail process is replaced by its first child.
JoinFindTarget ==
    /\ jpc = "comm"
    /\ \E redirected \in BOOLEAN :
          /\ jin' = [jin EXCEPT !.pid = IF redirected THEN "child" ELSE "given"]
          /\ trace' = trace \o <<Ev("EUID_ROOT", "", 0), Ev("pid_proc_comm", "", 0),
                                 Ev("EUID_USER", "", 0)>>
                            \o (IF redirected THEN <<Ev("find_child", "", 0)>> ELSE <<>>)
    /\ euid' = uid
    /\ jpc' = "check"
    /\ UNCHANGED <<cpc, jctx, ctrace, jexit, uid, fsVars, bootVars>>

\* A test that also lets any user into a sandbox of root.
Bad_JoinPermitted(u, sandbox_uid) == u = sandbox_uid \/ sandbox_uid = 0

\* Line 218: the user u may join a sandbox of sandbox_uid.
JoinPermitted(u, sandbox_uid) == u = sandbox_uid

\* Lines 214-222: a non-root user may only join a sandbox of their own.
JoinCheckUid ==
    /\ jpc = "check"
    /\ IF uid # 0
          THEN \E sandbox_uid \in {0, 1000, 1001} :
                  /\ jin' = [jin EXCEPT !.sandbox_uid = sandbox_uid]
                  /\ trace' = Append(trace, Ev("pid_get_uid", jin.pid, sandbox_uid))
                  /\ IF ~JoinPermitted(uid, sandbox_uid)
                        THEN ParentExit(1)
                     ELSE jpc' = "extract" /\ UNCHANGED jexit
       ELSE jpc' = "extract" /\ UNCHANGED <<jin, trace, jexit>>
    /\ UNCHANGED <<cpc, euid, jctx, ctrace, uid, fsVars, bootVars>>

\* Lines 224-236: as root, a non-root user reads the context of the target;
\* then the control group, when one was read, is entered.
JoinExtract ==
    /\ jpc = "extract"
    /\ euid' = 0
    /\ IF uid # 0
          THEN \E readable \in BOOLEAN,
                  cpu \in BOOLEAN, cgroup \in BOOLEAN, nogroups \in BOOLEAN,
                  uidmap \in UidMaps :
                  IF ~readable
                     THEN /\ trace' = trace \o <<Ev("EUID_ROOT", "", 0),
                                                 Ev("extract_caps_seccomp", jin.pid, -1)>>
                          /\ ParentExit(1)
                          /\ UNCHANGED <<jin, jctx>>
                  ELSE LET c1 == extract_caps_seccomp(jin.status, jctx)
                           c2 == extract_user_namespace(uidmap,
                                   extract_nogroups(nogroups,
                                     extract_cgroup(cgroup, extract_cpu(cpu, c1))))
                       IN  /\ jctx' = c2
                           /\ UNCHANGED jin
                           /\ trace' = trace \o
                                  <<Ev("EUID_ROOT", "", 0),
                                    Ev("extract_caps_seccomp", jin.pid, 0),
                                    Ev("extract_cpu", jin.pid, 0),
                                    Ev("extract_cgroup", jin.pid, 0),
                                    Ev("extract_nogroups", jin.pid, 0),
                                    Ev("extract_user_namespace", jin.pid, 0)>>
                                  \o (IF c2.cgroup THEN <<Ev("set_cgroup", "", 0)>> ELSE <<>>)
                           /\ jpc' = "ns"
                           /\ UNCHANGED jexit
       ELSE /\ trace' = trace \o <<Ev("EUID_ROOT", "", 0)>>
                              \o (IF jctx.cgroup THEN <<Ev("set_cgroup", "", 0)>> ELSE <<>>)
            /\ jpc' = "ns"
            /\ UNCHANGED <<jin, jctx, jexit>>
    /\ UNCHANGED <<cpc, ctrace, uid, fsVars, bootVars>>

\* Lines 238-258: one join_namespace call; a failure is fatal.
JoinNamespace ==
    /\ jpc = "ns"
    /\ LET n  == Cardinality(Calls(trace, "join_namespace"))
           ns == NsList(jin.mode)
       IN  \E rv \in {0, -1} :
              /\ trace' = Append(trace, Ev("join_namespace", ns[n + 1], rv))
              /\ IF rv # 0 THEN ParentExit(1)
                 ELSE /\ jpc' = IF n + 1 = Len(ns) THEN "fork" ELSE "ns"
                      /\ UNCHANGED jexit
    /\ UNCHANGED <<cpc, euid, jin, jctx, ctrace, uid, fsVars, bootVars>>

\* Lines 260-263: fork.
JoinFork ==
    /\ jpc = "fork"
    /\ \E ok \in BOOLEAN :
          IF ok
             THEN /\ trace' = Append(trace, Ev("fork", "", 0))
                  /\ jpc' = "signal"
                  /\ cpc' = "chroot"
                  /\ UNCHANGED jexit
          ELSE /\ trace' = Append(trace, Ev("fork", "", -1))
               /\ ParentExit(1)
               /\ UNCHANGED cpc
    /\ UNCHANGED <<euid, jin, jctx, ctrace, uid, fsVars, bootVars>>

\* Line 396: the parent installs the SIGTERM handler.
JoinSignal ==
    /\ jpc = "signal"
    /\ trace' = Append(trace, Ev("signal", "SIGTERM", 0))
    /\ jpc' = "wait"
    /\ UNCHANGED <<cpc, euid, jin, jctx, ctrace, jexit, uid, fsVars, bootVars>>

\* Lines 398-403: the parent waits for the child, flushes and exits.
JoinWait ==
    /\ jpc = "wait"
    /\ cpc = "exited"
    /\ trace' = trace \o <<Ev("waitpid", "", 0), Ev("ctflush", "", 0)>>
    /\ ParentExit(0)
    /\ UNCHANGED <<cpc, euid, jin, jctx, ctrace, uid, fsVars, bootVars>>

\* The death signal of the child is armed: prctl(PR_SET_PDEATHSIG) has been
\* called (line 276) and the credentials of the child have not changed since
\* (the kernel clears the setting when the effective uid changes, which
\* drop_privs does for a user other than root).
PdeathsigSet ==
    /\ Calls(ctrace, "prctl") # {}
    /\ ~(Calls(ctrace, "drop_privs") # {} /\ euid # uid)

\* The child is a running process.
ChildAlive == cpc \notin {"none", "exited", "killed"}

\* SIGTERM reaches the parent after fork.  Once signal() has been called
\* (line 396) signal_handler runs: ctflush, exit(sig) (lines 35-39).  Before
\* that the signal has its default action and the process is terminated as
\* it is.  Either way the parent is gone, and the kernel sends SIGKILL to the
\* child at that moment when the death signal of the child is armed.
JoinSigterm ==
    /\ jpc \in {"signal", "wait"}
    /\ IF jpc = "wait"
          THEN /\ trace' = trace \o <<Ev("SIGTERM", "signal_handler", 15),
                                      Ev("ctflush", "", 0)>>
               /\ jpc' = "exited"
       ELSE /\ trace' = Append(trace, Ev("SIGTERM", "SIG_DFL", 15))
            /\ jpc' = "killed"
    /\ IF ChildAlive /\ PdeathsigSet
          THEN /\ cpc' = "killed"
               /\ UNCHANGED ctrace
               /\ jexit' = [parent |-> IF jpc = "wait" THEN 15 ELSE 128 + 15,
                            child |-> 128 + 9]
       ELSE /\ UNCHANGED <<cpc, ctrace>>
            /\ jexit' = [jexit EXCEPT !.parent = IF jpc = "wait" THEN 15 ELSE 128 + 15]
    /\ UNCHANGED <<euid, jin, jctx, uid, fsVars, bootVars>>

\* ---- the child ----

\* A child that changes its root in every mode.
Bad_ChildChroot ==
    /\ cpc = "chroot"
    /\ \E rv \in {0, -1} : ctrace' = Append(ctrace, Ev("chroot", jin.pid, rv))
    /\ cpc' = "pdeathsig"
    /\ UNCHANGED <<jpc, euid, jin, jctx, trace, jexit, uid, fsVars, bootVars>>

\* Lines 264-274: chroot into /proc/<pid>/root unless only the network
\* namespace is joined.  The result of chroot is only used for a message.
ChildChroot ==
    /\ cpc = "chroot"
    /\ IF jin.mode # "net"
          THEN \E rv \in {0, -1} : ctrace' = Append(ctrace, Ev("chroot", jin.pid, rv))
       ELSE UNCHANGED ctrace
    /\ cpc' = "pdeathsig"
    /\ UNCHANGED <<jpc, euid, jin, jctx, trace, jexit, uid, fsVars, bootVars>>

\* Line 276: prctl(PR_SET_PDEATHSIG, SIGKILL).
ChildPdeathsig ==
    /\ cpc = "pdeathsig"
    /\ ctrace' = Append(ctrace, Ev("prctl", "PR_SET_PDEATHSIG", 0))
    /\ cpc' = "chdir"
    /\ UNCHANGED <<jpc, euid, jin, jctx, trace, jexit, uid, fsVars, bootVars>>

\* Lines 277-286: chdir("/"), then the home directory when it is there.
ChildChdir ==
    /\ cpc = "chdir"
    /\ \E rv \in {0, -1} :
          /\ ctrace' = Append(ctrace, Ev("chdir", "", rv))
          /\ IF rv # 0 THEN ChildExit(1)
             ELSE cpc' = "cpu" /\ UNCHANGED jexit
    /\ UNCHANGED <<jpc, euid, jin, jctx, trace, uid, fsVars, bootVars>>

\* Lines 288-290: cpu affinity.
ChildCpu ==
    /\ cpc = "cpu"
    /\ ctrace' = IF jctx.cpus THEN Append(ctrace, Ev("set_cpu_affinity", "", 0)) ELSE ctrace
    /\ cpc' = "caps"
    /\ UNCHANGED <<jpc, euid, jin, jctx, trace, jexit, uid, fsVars, bootVars>>

\* A child that sets the capability filter whether or not a mask was read.
Bad_ChildCaps ==
    /\ cpc = "caps"
    /\ ctrace' = Append(ctrace, Ev("caps_set", "", jctx.caps))
    /\ cpc' = "protocol_load"
    /\ UNCHANGED <<jpc, euid, jin, jctx, trace, jexit, uid, fsVars, bootVars>>

\* Lines 292-294: the capability filter.
ChildCaps ==
    /\ cpc = "caps"
    /\ ctrace' = IF jctx.apply_caps = 1 THEN Append(ctrace, Ev("caps_set", "", jctx.caps))
                 ELSE ctrace
    /\ cpc' = "protocol_load"
    /\ UNCHANGED <<jpc, euid, jin, jctx, trace, jexit, uid, fsVars, bootVars>>

\* Lines 296-298: the default protocol filter, for a non-root user.
ChildProtocolLoad ==
    /\ cpc = "protocol_load"
    /\ ctrace' = IF HAVE_SECCOMP /\ uid # 0
                    THEN Append(ctrace, Ev("protocol_filter_load", "", 0))
                 ELSE ctrace
    /\ cpc' = "protocol"
    /\ UNCHANGED <<jpc, euid, jin, jctx, trace, jexit, uid, fsVars, bootVars>>

\* Lines 299-301: the protocol filter of the configuration.
ChildProtocol ==
    /\ cpc = "protocol"
    /\ ctrace' = IF HAVE_SECCOMP /\ jin.protocol
                    THEN Append(ctrace, Ev("protocol_filter", "", 0))
                 ELSE ctrace
    /\ cpc' = "seccomp"
    /\ UNCHANGED <<jpc, euid, jin, jctx, trace, jexit, uid, fsVars, bootVars>>

\* Lines 303-305: seccomp enforcement.
ChildSeccomp ==
    /\ cpc = "seccomp"
    /\ ctrace' = IF HAVE_SECCOMP /\ jctx.apply_seccomp = 1
                    THEN Append(ctrace, Ev("seccomp_set", "", 0))
                 ELSE ctrace
    /\ cpc' = "setenv"
    /\ UNCHANGED <<jpc, euid, jin, jctx, trace, jexit, uid, fsVars, bootVars>>

\* Lines 308-312: the environment fixups.
ChildSetenv ==
    /\ cpc = "setenv"
    /\ \E rv \in {0, -1} :
          /\ ctrace' = Append(ctrace, Ev("setenv", "", rv))
          /\ IF rv # 0 THEN ChildExit(1)
             ELSE cpc' = "privs" /\ UNCHANGED jexit
    /\ UNCHANGED <<jpc, euid, jin, jctx, trace, uid, fsVars, bootVars>>

\* A child that sets the capability filter again before it enters the user
\* namespace, which then resets it.
Bad_ChildPrivs ==
    /\ cpc = "privs"
    /\ IF jctx.noroot = 1
          THEN \E rv \in {0, -1} :
                  IF rv # 0
                     THEN /\ ctrace' = Append(ctrace, Ev("join_namespace", "user", rv))
                          /\ ChildExit(1)
                  ELSE /\ ctrace' = ctrace
                                    \o (IF jctx.apply_caps = 1
                                           THEN <<Ev("caps_set", "", jctx.caps)>> ELSE <<>>)
                                    \o <<Ev("join_namespace", "user", 0)>>
                       /\ cpc' = "shell"
                       /\ UNCHANGED jexit
       ELSE /\ ctrace' = Append(ctrace, Ev("drop_privs", "", jctx.nogroups))
            /\ cpc' = "shell"
            /\ UNCHANGED jexit
    /\ UNCHANGED <<jpc, euid, jin, jctx, trace, uid, fsVars, bootVars>>

\* Lines 314-327: the user namespace and the capability filter again, or
\* drop_privs.
ChildPrivs ==
    /\ cpc = "privs"
    /\ IF jctx.noroot = 1
          THEN \E rv \in {0, -1} :
                  IF rv # 0
                     THEN /\ ctrace' = Append(ctrace, Ev("join_namespace", "user", rv))
                          /\ ChildExit(1)
                  ELSE /\ ctrace' = Append(ctrace, Ev("join_namespace", "user", 0))
                                    \o (IF jctx.apply_caps = 1
                                           THEN <<Ev("caps_set", "", jctx.caps)>> ELSE <<>>)
                       /\ cpc' = "shell"
                       /\ UNCHANGED jexit
       ELSE /\ ctrace' = Append(ctrace, Ev("drop_privs", "", jctx.nogroups))
            /\ cpc' = "shell"
            /\ UNCHANGED jexit
    /\ UNCHANGED <<jpc, euid, jin, jctx, trace, uid, fsVars, bootVars>>

\* Lines 330-388: prompt, nice, the shell when no command was given, and the
\* working directory.
ChildShell ==
    /\ cpc = "shell"
    /\ IF jin.cmd = "none"
          THEN \E found \in BOOLEAN :
                  IF found THEN cpc' = "start" /\ UNCHANGED jexit
                  ELSE ChildExit(1)
       ELSE cpc' = "start" /\ UNCHANGED jexit
    /\ UNCHANGED <<jpc, euid, jin, jctx, trace, ctrace, uid, fsVars, bootVars>>

\* Line 390: start_application.
ChildStart ==
    /\ cpc = "start"
    /\ ctrace' = Append(ctrace, Ev("start_application", "", 0))
    /\ cpc' = "app"
    /\ UNCHANGED <<jpc, euid, jin, jctx, trace, jexit, uid, fsVars, bootVars>>

\* The command that was started ends.
ChildAppExit ==
    /\ cpc = "app"
    /\ \E status \in {0, 1, 2} : ChildExit(status)
    /\ UNCHANGED <<jpc, euid, jin, jctx, trace, ctrace, uid, fsVars, bootVars>>

FsIdle ==
    /\ profile = <<>> /\ fs_pc = "idle" /\ noblacklist = <<>>
    /\ mounts = {} /\ log = {} /\ out = {} /\ last_disable = "UNSUCCESSFUL"

\* join() is entered with the effective uid of the user (EUID_ASSERT).
InitJoin ==
    /\ FsIdle
    /\ BootIdle
    /\ uid \in {0, 1000}
    /\ euid = uid
    /\ jpc = "start" /\ cpc = "none"
    /\ jin \in [cmd : {"none", "valid", "invalid"}, mode : {"net", "mnt", "full"},
                protocol : BOOLEAN, pid : {"given"}, sandbox_uid : {-1},
                status : StatusFiles]
    /\ jctx = Ctx0
    /\ trace = <<>> /\ ctrace = <<>>
    /\ jexit = [parent |-> -1, child |-> -1]

NextJoin ==
    \/ JoinExtractCommand \/ JoinFindTarget \/ JoinCheckUid \/ JoinExtract
    \/ JoinNamespace \/ JoinFork \/ JoinSignal \/ JoinWait \/ JoinSigterm
    \/ ChildChroot \/ ChildPdeathsig \/ ChildChdir \/ ChildCpu \/ ChildCaps
    \/ ChildProtocolLoad \/ ChildProtocol \/ ChildSeccomp \/ ChildSetenv
    \/ ChildPrivs \/ ChildShell \/ ChildStart \/ ChildAppExit

SpecJoin == InitJoin /\ [][NextJoin]_vars

(***************************************************************************)
(* The staging bootstrap (fs_build_firejail_dir, fs_build_mnt_dir), the    *)
(* overlay composer (fs_overlayfs) and fs_chroot                           *)
(***************************************************************************)
\* The build has chroot and overlayfs support.
HAVE_CHROOT    == TRUE
HAVE_OVERLAYFS == TRUE

\* Most calls of fs_build_firejail_dir and fs_build_mnt_dir made by the rest
\* of the program in one run.
MaxBoot == 3

\* The directories fs_build_firejail_dir creates with create_dir_as_root, in
\* the order of lines 77-109, and the two donors.
StagingDirs ==
    <<"RUN_FIREJAIL_BASEDIR", "RUN_FIREJAIL_DIR", "RUN_FIREJAIL_NETWORK_DIR",
      "RUN_FIREJAIL_BANDWIDTH_DIR", "RUN_FIREJAIL_NAME_DIR", "RUN_FIREJAIL_X11_DIR",
      "RUN_FIREJAIL_APPIMAGE_DIR">>

\* One system call or call: what, its source or file system type, its target,
\* its options.
BEv(call, src, dst, opt) == [call |-> call, src |-> src, dst |-> dst, opt |-> opt]

\* The state the bootstrap works on: the flag, the staging tree, the calls
\* made and the exit status.
Bs == [tmpfs_mounted |-> tmpfs_mounted, run |-> run_fs, calls |-> btrace, exit |-> bexit]

Running(b) == b.exit = -1

\* A step that is only taken while the process is alive.
Do(b, ev) == IF Running(b) THEN [b EXCEPT !.calls = Append(@, ev)] ELSE b

\* exit(1), also through errExit.
Exit1(b, why) ==
    IF Running(b)
       THEN [b EXCEPT !.calls = Append(@, BEv("exit", why, "", "")), !.exit = 1]
    ELSE b

\* Lines 32-43: create_dir_as_root.
create_dir_as_root(b, dir) ==
    IF Running(b)
       THEN [b EXCEPT !.calls = Append(@, BEv("mkdir", "", dir, "")),
                      !.run.have = @ \cup {dir}]
    ELSE b

\* Lines 45-56: create_empty_dir.
create_empty_dir(b) ==
    IF Running(b) /\ "RUN_RO_DIR" \notin b.run.have
       THEN create_dir_as_root(b, "RUN_RO_DIR")
    ELSE b

\* Lines 58-70: create_empty_file.
create_empty_file(b) ==
    IF Running(b) /\ "RUN_RO_FILE" \notin b.run.have
       THEN [b EXCEPT !.calls = Append(@, BEv("fopen", "", "RUN_RO_FILE", "w")),
                      !.run.have = @ \cup {"RUN_RO_FILE"}]
    ELSE b

RECURSIVE CreateMissing(_, _)
\* Lines 77-109: each directory is created when stat does not find it;
\* /run/firejail that is there must belong to root.
CreateMissing(dirs, b) ==
    IF dirs = <<>> \/ ~Running(b) THEN b
    ELSE LET dir == Head(dirs)
         IN  IF dir \in b.run.have
                THEN IF dir = "RUN_FIREJAIL_DIR" /\ b.run.dir_uid # 0
                        THEN Exit1(b, "non-root RUN_FIREJAIL_DIR")
                     ELSE CreateMissing(Tail(dirs), b)
             ELSE CreateMissing(Tail(dirs),
                     IF dir = "RUN_FIREJAIL_DIR"
                        THEN [create_dir_as_root(b, dir) EXCEPT !.run.dir_uid = 0]
                     ELSE create_dir_as_root(b, dir))

\* Lines 73-114: fs_build_firejail_dir.
fs_build_firejail_dir(b) ==
    create_empty_file(create_empty_dir(
        CreateMissing(StagingDirs, Do(b, BEv("fs_build_firejail_dir", "", "", "")))))

\* Lines 135-144 of a build that mounts the staging tmpfs whatever the flag
\* says.
Bad_MountStaging(b, mount_ok) ==
    IF ~Running(b) THEN b
    ELSE IF ~mount_ok
            THEN Exit1(Do(b, BEv("mount", "tmpfs", "RUN_MNT_DIR", "fail")),
                       "mounting /run/firejail/mnt")
         ELSE [Do(Do(b, BEv("mount", "tmpfs", "RUN_MNT_DIR", "")),
                  BEv("fs_logger2", "tmpfs", "RUN_MNT_DIR", ""))
                 EXCEPT !.tmpfs_mounted = 1, !.run.mnt_tmpfs = @ + 1]

\* Lines 135-144: the staging tmpfs is mounted when the flag is not set.
MountStaging(b, mount_ok) ==
    IF ~Running(b) \/ b.tmpfs_mounted # 0 THEN b
    ELSE IF ~mount_ok
            THEN Exit1(Do(b, BEv("mount", "tmpfs", "RUN_MNT_DIR", "fail")),
                       "mounting /run/firejail/mnt")
         ELSE [Do(Do(b, BEv("mount", "tmpfs", "RUN_MNT_DIR", "")),
                  BEv("fs_logger2", "tmpfs", "RUN_MNT_DIR", ""))
                 EXCEPT !.tmpfs_mounted = 1, !.run.mnt_tmpfs = @ + 1]

\* Lines 126-145: fs_build_mnt_dir.
fs_build_mnt_dir(b, mount_ok) ==
    LET b1 == fs_build_firejail_dir(Do(b, BEv("fs_build_mnt_dir", "", "", "")))
        b2 == IF Running(b1) /\ "RUN_MNT_DIR" \notin b1.run.have
                 THEN create_dir_as_root(b1, "RUN_MNT_DIR")
              ELSE b1
    IN  MountStaging(b2, mount_ok)

\* A remount that forgets to clear the flag.
Bad_fs_build_remount_mnt_dir(b, mount_ok) == fs_build_mnt_dir(b, mount_ok)

\* Lines 120-123: fs_build_remount_mnt_dir.
fs_build_remount_mnt_dir(b, mount_ok) ==
    IF ~Running(b) THEN b
    ELSE fs_build_mnt_dir(
            [Do(b, BEv("tmpfs_mounted", "", "", "0")) EXCEPT !.tmpfs_mounted = 0],
            mount_ok)

\* ---- fs_overlayfs ----

\* The decimal digits, in order of value.
Digits == <<"0", "1", "2", "3", "4", "5", "6", "7", "8", "9">>

DigitVal(c) == (CHOOSE i \in 1..10 : Digits[i] = c) - 1

IsDigit(c) == \E i \in 1..10 : Digits[i] = c

RECURSIVE ScanInt(_, _, _)
\* The %d conversion of sscanf: the longest run of digits at the head of s
\* (n digits, of value val), and what follows it.
ScanInt(s, val, n) ==
    IF s # <<>> /\ IsDigit(Head(s))
       THEN ScanInt(Tail(s), 10 * val + DigitVal(Head(s)), n + 1)
    ELSE [val |-> val, n |-> n, rest |-> s]

\* Line 865: sscanf(u.release, "%d.%d", &major, &minor) and its result.
sscanf_release(release) ==
    LET a == ScanInt(release, 0, 0)
    IN  IF a.n = 0 THEN [count |-> 0, major |-> 0, minor |-> 0]
        ELSE IF a.rest = <<>> \/ Head(a.rest) # "."
                THEN [count |-> 1, major |-> a.val, minor |-> 0]
        ELSE LET c == ScanInt(Tail(a.rest), 0, 0)
             IN  IF c.n = 0 THEN [count |-> 1, major |-> a.val, minor |-> 0]
                 ELSE [count |-> 2, major |-> a.val, minor |-> c.val]

\* Kernel release strings uname may report, character by character:
\* 3.18.0, 3.10.0, 3.17.4, 2.6.32, 4.4.0 and 3.x.
Releases ==
    { <<"3", ".", "1", "8", ".", "0">>, <<"3", ".", "1", "0", ".", "0">>,
      <<"3", ".", "1", "7", ".", "4">>, <<"2", ".", "6", ".", "3", "2">>,
      <<"4", ".", "4", ".", "0">>, <<"3", ".", "x">> }

\* A test that takes 3.18 for an old kernel too.
Bad_oldkernel(major, minor) == major = 3 /\ minor <= 18

\* Lines 877-878: oldkernel.
oldkernel(major, minor) == major = 3 /\ minor < 18

\* What fs_overlayfs finds: e.basedir (cfg.overlay_dir is there), e.home (the
\* home directory shows in the overlay), e.x11 (/tmp/.X11-unix is there) and
\* the results of its mount and chroot calls.
OverlayEnv ==
    [basedir : BOOLEAN, home : BOOLEAN, x11 : BOOLEAN,
     tmpfs_ok : BOOLEAN, mount_ok : BOOLEAN, chroot_ok : BOOLEAN]

\* Lines 883-943: oroot, the base directory and the diff and work
\* directories.
OverlayDirs(b, a, e) ==
    LET b1 == Do(b, BEv("mkdir", "", "oroot", ""))
        b2 == IF a.keep
                 THEN IF e.basedir
                         THEN IF ~a.reuse
                                 THEN Exit1(b1, "overlay directory exists, but reuse is not allowed")
                              ELSE b1
                      ELSE Do(b1, BEv("mkdir", "", "basedir", ""))
              ELSE b1
        fresh == ~(a.keep /\ e.basedir)
        b3 == IF fresh THEN Do(b2, BEv("mkdir", "", "odiff", "")) ELSE b2
        b4 == IF fresh THEN Do(b3, BEv("mkdir", "", "owork", "")) ELSE b3
    IN  b4

\* Lines 945-1033: the overlay mounts by driver, with the second overlay for
\* a home directory that does not show in the first.
OverlayMount(b, a, e, old) ==
    IF ~Running(b) THEN b
    ELSE IF old
       THEN IF a.keep
               THEN Exit1(b, "option --overlay= not available for kernels older than 3.18")
            ELSE IF e.mount_ok
               THEN Do(b, BEv("mount", "overlayfs", "oroot", "lowerdir,upperdir"))
            ELSE Exit1(Do(b, BEv("mount", "overlayfs", "oroot", "fail")), "mounting overlayfs")
    ELSE IF ~e.mount_ok
       THEN Exit1(Do(b, BEv("mount", "overlay", "oroot", "fail")), "mounting overlayfs")
    ELSE LET b1 == Do(b, BEv("mount", "overlay", "oroot", "lowerdir,upperdir,workdir"))
         IN  IF e.home THEN b1
             ELSE Do(Do(Do(b1, BEv("mkdir", "", "hdiff", "")),
                        BEv("mkdir", "", "hwork", "")),
                     BEv("mount", "overlay", "hroot", "lowerdir,upperdir,workdir"))

\* Lines 1036-1092: /dev, /run and the X11 directory are bound into the new
\* root, then chroot and the bootstrap that follows it.  /run is bound with
\* MS_REC, so the staging tree and its tmpfs show in the new root as before.
OverlayEnter(b, e, u) ==
    LET b1 == Do(Do(b, BEv("mount", "/dev", "oroot/dev", "bind")),
                 BEv("mount", "/run", "oroot/run", "bind"))
        b2 == IF e.x11 THEN Do(b1, BEv("mount", "/tmp/.X11-unix", "oroot/tmp/.X11-unix", "bind"))
              ELSE b1
        b3 == IF e.chroot_ok THEN Do(b2, BEv("chroot", "fs_overlayfs", "oroot", ""))
              ELSE Exit1(Do(b2, BEv("chroot", "fs_overlayfs", "oroot", "fail")), "chroot")
        b4 == Do(b3, BEv("post_chroot", "", "", ""))
    IN  IF u # 0 THEN Do(b4, BEv("disable_config", "", "", "")) ELSE b4

\* Lines 857-1097: fs_overlayfs.
fs_overlayfs(b, a, e, u) ==
    LET v  == sscanf_release(a.release)
        b0 == Do(b, BEv("fs_overlayfs", "", "", ""))
    IN  IF v.count # 2 THEN Exit1(b0, "cannot extract Linux kernel version")
        ELSE IF v.major < 3 THEN Exit1(b0, "minimum kernel version required 3.x")
        ELSE OverlayEnter(
                OverlayMount(
                   OverlayDirs(fs_build_mnt_dir(b0, e.tmpfs_ok), a, e),
                   a, e, oldkernel(v.major, v.minor)),
                e, u)

\* ---- fs_chroot ----

\* The staging trees a root file system may hold: nothing, /run only,
\* /run/firejail too, or all of it.
StagingTrees ==
    { {}, {"RUN_FIREJAIL_BASEDIR"}, {"RUN_FIREJAIL_BASEDIR", "RUN_FIREJAIL_DIR"},
      {StagingDirs[i] : i \in 1..Len(StagingDirs)}
         \cup {"RUN_RO_DIR", "RUN_RO_FILE", "RUN_MNT_DIR"} }

\* The staging tree of a root file system before firejail has mounted
\* anything in it; dir_uid is the owner of /run/firejail.
RunStates ==
    { r \in [have : StagingTrees, dir_uid : {0, 1000}, mnt_tmpfs : {0}] :
         r.dir_uid # 0 => "RUN_FIREJAIL_DIR" \in r.have }

\* ---- fs_check_chroot_dir ----

\* What fs_check_chroot_dir looks for below the chroot directory.
ChrootNeeds == {"/dev", "/var/tmp", "/proc", "/tmp"}
X11Dir      == "/tmp/.X11-unix"

\* A chroot directory as stat finds it: whether it is there, its owner, and
\* which of the names looked for exist below it.
RootDir(ex, u, has) == [exists |-> ex, uid |-> u, has |-> has]

\* No chroot directory was asked for.
NoRootDir == RootDir(FALSE, 0, {})

\* The chroot directories tried: a complete one owned by root, with and
\* without the X11 directory, the same with one name missing, a complete one
\* owned by a user, and one that does not exist.
RootDirs ==
    {RootDir(TRUE, 0, ChrootNeeds \cup {X11Dir}), RootDir(TRUE, 0, ChrootNeeds),
     RootDir(TRUE, 1000, ChrootNeeds \cup {X11Dir}), NoRootDir}
    \cup {RootDir(TRUE, 0, (ChrootNeeds \cup {X11Dir}) \ {n}) : n \in {"/dev", "/var/tmp", "/proc"}}
    \cup {RootDir(TRUE, 0, ChrootNeeds \ {"/tmp"})}

\* The outcome of fs_check_chroot_dir: the value returned and the error
\* printed.
Checked(rv, msg) == [rv |-> rv, msg |-> msg]

\* A check that forgets /var/tmp.
Bad_fs_check_chroot_dir(r, x11env) ==
    IF ~r.exists THEN Checked(1, "cannot find chroot directory")
    ELSE IF r.uid # 0 THEN Checked(1, "chroot directory should be owned by root")
    ELSE IF "/dev" \notin r.has THEN Checked(1, "cannot find /dev in chroot directory")
    ELSE IF "/proc" \notin r.has THEN Checked(1, "cannot find /proc in chroot directory")
    ELSE IF "/tmp" \notin r.has THEN Checked(1, "cannot find /tmp in chroot directory")
    ELSE IF x11env /\ X11Dir \notin r.has
        THEN Checked(1, "cannot find /tmp/.X11-unix in chroot directory")
    ELSE Checked(0, "")

\* Lines 1101-1176: fs_check_chroot_dir(rootdir), with x11env saying whether
\* FIREJAIL_X11 is in the environment.
fs_check_chroot_dir(r, x11env) ==
    IF ~r.exists THEN Checked(1, "cannot find chroot directory")
    ELSE IF r.uid # 0 THEN Checked(1, "chroot directory should be owned by root")
    ELSE IF "/dev" \notin r.has THEN Checked(1, "cannot find /dev in chroot directory")
    ELSE IF "/var/tmp" \notin r.has THEN Checked(1, "cannot find /var/tmp in chroot directory")
    ELSE IF "/proc" \notin r.has THEN Checked(1, "cannot find /proc in chroot directory")
    ELSE IF "/tmp" \notin r.has THEN Checked(1, "cannot find /tmp in chroot directory")
    ELSE IF x11env /\ X11Dir \notin r.has
        THEN Checked(1, "cannot find /tmp/.X11-unix in chroot directory")
    ELSE Checked(0, "")

\* What fs_chroot finds: the results of its mount and chroot calls, whether
\* etc/resolv.conf of the new root is a link, whether copy_file can write it,
\* and the staging tree of the new root.
ChrootEnv ==
    [dev_ok : BOOLEAN, resolv_link : BOOLEAN, copy_ok : BOOLEAN, chroot_ok : BOOLEAN,
     tmpfs_ok : BOOLEAN, newrun : RunStates]

\* Lines 1225-1232: etc/resolv.conf of the new root is refused when it is a
\* link; a copy that fails is only reported.
CopyResolvConf(b, e) ==
    IF e.resolv_link THEN Exit1(b, "invalid resolv.conf file")
    ELSE IF e.copy_ok
        THEN Do(b, BEv("copy_file", "/etc/resolv.conf", "rootdir/etc/resolv.conf", ""))
    ELSE Do(Do(b, BEv("copy_file", "/etc/resolv.conf", "rootdir/etc/resolv.conf", "fail")),
            BEv("warning", "/etc/resolv.conf not initialized", "", ""))

\* A preparation that gives up when the copy fails.
Bad_ChrootPrepare(b, a, e) ==
    IF ~a.desktop THEN b
    ELSE IF ~e.dev_ok
       THEN Exit1(Do(b, BEv("mount", "/dev", "rootdir/dev", "fail")), "mounting /dev")
    ELSE LET b1 == Do(b, BEv("mount", "/dev", "rootdir/dev", "bind"))
             b2 == IF a.x11env
                      THEN Do(b1, BEv("mount", "/tmp/.X11-unix", "rootdir/tmp/.X11-unix", "bind"))
                   ELSE b1
         IN  IF e.copy_ok THEN CopyResolvConf(b2, e)
             ELSE Exit1(Do(b2, BEv("copy_file", "/etc/resolv.conf",
                                   "rootdir/etc/resolv.conf", "fail")), "copy_file")

\* Lines 1182-1232: with the chroot desktop configuration, /dev and the X11
\* directory are bound into the new root and resolv.conf is copied.
ChrootPrepare(b, a, e) ==
    IF ~a.desktop THEN b
    ELSE IF ~e.dev_ok
       THEN Exit1(Do(b, BEv("mount", "/dev", "rootdir/dev", "fail")), "mounting /dev")
    ELSE LET b1 == Do(b, BEv("mount", "/dev", "rootdir/dev", "bind"))
             b2 == IF a.x11env
                      THEN Do(b1, BEv("mount", "/tmp/.X11-unix", "rootdir/tmp/.X11-unix", "bind"))
                   ELSE b1
         IN  CopyResolvConf(b2, e)

\* Lines 1235-1239: chroot; the staging tree is now that of the new root,
\* with nothing mounted on it.
ChrootEnter(b, e) ==
    IF ~Running(b) THEN b
    ELSE IF ~e.chroot_ok
       THEN Exit1(Do(b, BEv("chroot", "fs_chroot", "rootdir", "fail")), "chroot")
    ELSE [Do(b, BEv("chroot", "fs_chroot", "rootdir", "")) EXCEPT !.run = e.newrun]

\* Lines 1179-1263: fs_chroot.
fs_chroot(b, a, e, u) ==
    LET b0 == Do(b, BEv("fs_chroot", "", "", ""))
        b1 == fs_build_remount_mnt_dir(ChrootEnter(ChrootPrepare(b0, a, e), e), e.tmpfs_ok)
        b2 == IF a.desktop THEN Do(b1, BEv("post_chroot", "", "", "")) ELSE b1
    IN  IF a.desktop /\ u # 0 THEN Do(b2, BEv("disable_config", "", "", "")) ELSE b2

\* ---- the sandbox being built ----

BCalls(tr, call) == {i \in 1..Len(tr) : tr[i].call = call}

\* The state after a handler has run.
SetBs(b) ==
    /\ tmpfs_mounted' = b.tmpfs_mounted
    /\ run_fs' = b.run
    /\ btrace' = b.calls
    /\ bexit' = b.exit
    /\ bpc' = IF b.exit = -1 THEN "run" ELSE "exited"
    /\ UNCHANGED <<bin, uid, fsVars, joinVars>>

\* The program calls fs_build_firejail_dir.
BootBuildFirejailDir ==
    /\ bpc = "run"
    /\ Cardinality(BCalls(btrace, "call")) < MaxBoot
    /\ SetBs(fs_build_firejail_dir(Do(Bs, BEv("call", "fs_build_firejail_dir", "", ""))))

\* The program calls fs_build_mnt_dir.
BootBuildMntDir ==
    /\ bpc = "run"
    /\ Cardinality(BCalls(btrace, "call")) < MaxBoot
    /\ \E mount_ok \in BOOLEAN :
          SetBs(fs_build_mnt_dir(Do(Bs, BEv("call", "fs_build_mnt_dir", "", "")), mount_ok))

\* The program calls fs_overlayfs, once, for a sandbox with an overlay.
BootOverlayfs ==
    /\ HAVE_OVERLAYFS
    /\ bpc = "run" /\ bin.root = "overlay"
    /\ BCalls(btrace, "fs_overlayfs") = {}
    /\ \E e \in OverlayEnv : SetBs(fs_overlayfs(Bs, bin, e, uid))

\* The program calls fs_check_chroot_dir on the chroot directory it was given
\* and exits when the directory is turned down.
BootCheckChrootDir ==
    /\ HAVE_CHROOT
    /\ bpc = "run" /\ bin.root = "chroot"
    /\ BCalls(btrace, "fs_check_chroot_dir") = {}
    /\ LET c  == fs_check_chroot_dir(bin.rootdir, bin.x11env)
           b1 == Do(Bs, BEv("fs_check_chroot_dir", c.msg, "", IF c.rv = 0 THEN "0" ELSE "1"))
       IN  SetBs(IF c.rv = 0 THEN b1 ELSE Exit1(b1, "invalid chroot"))

\* The program calls fs_chroot, once, for a sandbox with a chroot directory
\* that has been checked.
BootChroot ==
    /\ HAVE_CHROOT
    /\ bpc = "run" /\ bin.root = "chroot"
    /\ BCalls(btrace, "fs_check_chroot_dir") # {}
    /\ BCalls(btrace, "fs_chroot") = {}
    /\ \E e \in ChrootEnv : SetBs(fs_chroot(Bs, bin, e, uid))

\* The options of a sandbox: an overlay (kernel release, keep, reuse), a
\* chroot directory (the directory, desktop configuration, FIREJAIL_X11), or
\* neither.
BootOptions ==
    { [root |-> "overlay", release |-> r, keep |-> k.keep, reuse |-> k.reuse,
       desktop |-> FALSE, x11env |-> FALSE, rootdir |-> NoRootDir] :
         r \in Releases,
         k \in { [keep |-> FALSE, reuse |-> FALSE], [keep |-> TRUE, reuse |-> FALSE],
                 [keep |-> TRUE, reuse |-> TRUE] } }
    \cup
    { [root |-> "none", release |-> <<>>, keep |-> FALSE, reuse |-> FALSE,
       desktop |-> d, x11env |-> x, rootdir |-> NoRootDir] :
         d \in BOOLEAN, x \in BOOLEAN }
    \cup
    { [root |-> "chroot", release |-> <<>>, keep |-> FALSE, reuse |-> FALSE,
       desktop |-> d, x11env |-> x, rootdir |-> r] :
         d \in BOOLEAN, x \in BOOLEAN, r \in RootDirs }

InitBoot ==
    /\ FsIdle
    /\ JoinIdle
    /\ uid \in {0, 1000}
    /\ bpc = "run"
    /\ tmpfs_mounted = 0
    /\ run_fs \in RunStates
    /\ btrace = <<>>
    /\ bin \in BootOptions
    /\ bexit = -1

NextBoot ==
    \/ BootBuildFirejailDir \/ BootBuildMntDir \/ BootOverlayfs
    \/ BootCheckChrootDir \/ BootChroot

SpecBoot == InitBoot /\ [][NextBoot]_vars

(***************************************************************************)
(* Properties of fs_blacklist (checked under SpecFs)                       *)
(***************************************************************************)
Deny(mr) == mr.src \in Donors

BlacklistKw  == {"blacklist ", "blacklist-nolog "}
TransformKw  == {"read-only ", "read-write ", "noexec ", "tmpfs "}

\* The process did not exit while entry i was processed: the interpreter
\* went on to the next entry, or is about to.
GoesOn(i) == fs_pc = "exit" => Len(profile) > i

\* The mount table as it was when entry i was reached.
MountsBefore(i) == {mr \in mounts : mr.ent < i}

\* The noblacklist array as it was when entry i was reached.
NblBefore(i) ==
    LET js == {j \in 1..Len(noblacklist) : noblacklist[j].ent < i}
    IN  [j \in 1..Cardinality(js) |-> noblacklist[j]]

\* C1: a step of the interpreter never takes a mount away (so a noblacklist
\* entry leaves every earlier denial in place), and a denial it adds is never
\* for a name that matches a pattern already in the noblacklist array.
C1_NoblacklistOrder ==
    [][ /\ mounts \subseteq mounts'
        /\ \A mr \in mounts' \ mounts :
              Deny(mr) =>
                 \A j \in 1..Len(noblacklist) : ~Fnmatch(noblacklist[j].pat, mr.cand, TRUE)
      ]_vars

\* C1 witness: noblacklist /home/user/.ssh, then blacklist /home/user/.* has
\* denied .bashrc and left .ssh alone.
C1_Witness ==
    /\ Len(profile) = 2
    /\ profile[1] = Entry("noblacklist ", p_ssh)
    /\ profile[2] = Entry("blacklist ", p_user \o <<"/", ".", "*">>)
    /\ \E mr \in mounts : Deny(mr) /\ mr.dst = p_bashrc
    /\ ~\E mr \in mounts : mr.dst = p_ssh

\* The dotfiles of /home/user, read off the filesystem.
UserDotfiles ==
    {n.path : n \in {x \in FS : /\ x.path # <<>>
                                /\ Dirname(x.path) = p_user
                                /\ Head(gnu_basename(x.path)) = "."}}

\* C2: after "noblacklist /home/user/.ssh" and "blacklist /home/user/.*" the
\* denied paths are exactly the dotfiles of /home/user other than .ssh; no
\* "." or ".." name reached disable_file, so /home/user and /home are not
\* denied.
C2_DotfilesScenario ==
    ( /\ Len(profile) = 2
      /\ profile[1] = Entry("noblacklist ", p_ssh)
      /\ profile[2] = Entry("blacklist ", p_user \o <<"/", ".", "*">>) )
    => /\ {mr.dst : mr \in mounts} = UserDotfiles \ {p_ssh}
       /\ \A mr \in mounts : Deny(mr) /\ ~IsDotEntry(mr.cand)
       /\ \A l \in log : ~IsDotEntry(l.cand)
       /\ ~\E mr \in mounts : mr.dst \in {p_user, p_home, p_ssh}

C2_Witness ==
    /\ fs_pc = "done"
    /\ Len(profile) = 2
    /\ profile[1] = Entry("noblacklist ", p_ssh)
    /\ profile[2] = Entry("blacklist ", p_user \o <<"/", ".", "*">>)
    /\ \E mr \in mounts : mr.dst = p_bashrc
    /\ \E mr \in mounts : mr.dst = p_config

\* C3: a denial of a resolved target uses the directory donor exactly when
\* the target is a directory, whatever the entry was.
C3_DonorByType ==
    \A mr \in mounts :
        (Deny(mr) /\ profile[mr.ent].kw \in BlacklistKw /\ ~NodeAt(mr.dst).noaccess)
        => ((mr.src = RUN_RO_DIR) <=> (NodeAt(mr.dst).type = "dir"))

\* C3 witness: one profile has denied a directory with the directory donor
\* (blacklist) and a file with the file donor (blacklist-nolog).
C3_Witness ==
    /\ \E mr \in mounts : /\ mr.src = RUN_RO_DIR /\ mr.dst = p_ssh
                          /\ profile[mr.ent].kw = "blacklist "
    /\ \E mr \in mounts : /\ mr.src = RUN_RO_FILE /\ mr.dst = p_bashrc
                          /\ profile[mr.ent].kw = "blacklist-nolog "

\* Entry i is a blacklist entry none of whose names existed when it was
\* reached: realpath failed with ENOENT on every name glob returned, and
\* each of them could be compared with the exception patterns.
BlacklistOfNothing(i) ==
    /\ profile[i].kw \in BlacklistKw
    /\ LET pats == OperationPatterns(profile[i].arg)
       IN  \A k \in 1..Len(pats) :
              \A c \in Glob(pats[k], MountsBefore(i)) :
                 /\ Realpath(c, MountsBefore(i)).err = "ENOENT"
                 /\ ~CompareFails(c, NblBefore(i))

\* C4: a blacklist of a path that does not exist mounts nothing and logs
\* nothing, and the interpreter goes on.
C4_NonexistentNoop ==
    \A i \in 1..Len(profile) :
        BlacklistOfNothing(i) =>
            /\ ~\E mr \in mounts : mr.ent = i
            /\ ~\E l \in log : l.ent = i
            /\ GoesOn(i)

\* C4 witness: blacklist /data did nothing and the entry after it denied
\* .bashrc.
C4_Witness ==
    /\ Len(profile) = 2
    /\ profile[1] = Entry("blacklist ", p_data)
    /\ BlacklistOfNothing(1)
    /\ \E mr \in mounts : mr.ent = 2 /\ mr.dst = p_bashrc

\* C5: a read-only, read-write, noexec or tmpfs entry never mounts a denial
\* donor and is never logged as a blacklist.
C5_TransformNeverDenies ==
    /\ \A mr \in mounts : profile[mr.ent].kw \in TransformKw => ~Deny(mr)
    /\ \A l \in log : profile[l.ent].kw \in TransformKw
                         => l.msg \notin {"blacklist", "blacklist-nolog"}

(***************************************************************************)
(* Properties of join (checked under SpecJoin)                             *)
(***************************************************************************)
Count(tr, call) == Cardinality(Calls(tr, call))
Started         == Calls(ctrace, "start_application") # {}

\* What the status file of the target says, read off its lines.
HasCapBnd(status)       == \E i \in 1..Len(status) : status[i].key = "CapBnd:"
CapBndOf(status)        == status[CHOOSE i \in 1..Len(status) : status[i].key = "CapBnd:"].val
ReportsSeccomp2(status) ==
    \E i \in 1..Len(status) : status[i].key = "Seccomp:" /\ status[i].val = 2

ExtractCalls ==
    {"extract_caps_seccomp", "extract_cpu", "extract_cgroup", "extract_nogroups",
     "extract_user_namespace"}

\* C6: a non-root user whose uid differs from that of the target (after the
\* redirection to the first child) has left with status 1, and nothing was
\* extracted, no namespace entered and no child forked.
C6_ForeignSandboxRefused ==
    (uid # 0 /\ jin.sandbox_uid # -1 /\ jin.sandbox_uid # uid)
    => /\ jpc = "exited" /\ jexit.parent = 1
       /\ cpc = "none" /\ ctrace = <<>>
       /\ \A i \in 1..Len(trace) :
             trace[i].call \notin ExtractCalls \cup {"join_namespace", "fork", "set_cgroup"}

\* C6 witness: user 1000 asked for a firejail process, was redirected to its
\* child, which root owns, and was refused.
C6_Witness ==
    /\ uid = 1000 /\ jin.pid = "child" /\ jin.sandbox_uid = 0
    /\ jpc = "exited" /\ jexit.parent = 1

\* The privileges of the target are given to the command: the mask of the
\* status file was set, and seccomp was enforced when the file says 2, before
\* start_application.
PrivilegesReplicated ==
    /\ HasCapBnd(jin.status) =>
          \E i \in Calls(ctrace, "caps_set") :
             /\ ctrace[i].val = CapBndOf(jin.status)
             /\ i < SeqMin(Calls(ctrace, "start_application"))
    /\ ReportsSeccomp2(jin.status) =>
          \E i \in Calls(ctrace, "seccomp_set") :
             i < SeqMin(Calls(ctrace, "start_application"))

\* C7 as claimed, root included: whenever the command is started, the
\* privileges of the target were replicated.
C7_AnyUserReplicates == Started => PrivilegesReplicated

\* C7 as amended: for a non-root user, whenever the command is started, the
\* mask of the target was set and, if the target reports Seccomp: 2, seccomp
\* was enforced, before start_application.
C7_NonRootReplicates == (uid # 0 /\ Started) => PrivilegesReplicated

C7_Witness ==
    /\ uid # 0 /\ Started
    /\ HasCapBnd(jin.status) /\ CapBndOf(jin.status) = 5
    /\ ReportsSeccomp2(jin.status)

\* Every call of the parent and of the child, the parent's first: the parent
\* makes no call between fork and waitpid but signal().
FirstNs == SeqMin(Calls(trace, "join_namespace"))
LastNs  == SeqMax(Calls(trace, "join_namespace"))

\* Each element of the context is read exactly once, before the first
\* join_namespace call.
ReadOnceBeforeNs ==
    \A c \in ExtractCalls :
        /\ Count(trace, c) = 1
        /\ SeqMin(Calls(trace, c)) < FirstNs

\* The calls that apply an element of the context.
ApplyCalls == {"caps_set", "seccomp_set", "set_cgroup", "set_cpu_affinity"}

\* C8 as claimed: when the command is started, every element was read exactly
\* once before the first join_namespace call, and every element was applied
\* at most once (exactly once when the target has it), by a call made after
\* the last namespace was entered.
C8_ReadOnceApplyOnce ==
    Started =>
        /\ ReadOnceBeforeNs
        /\ \A c \in ApplyCalls :
              /\ Count(trace, c) + Count(ctrace, c) <= 1
              /\ \A i \in Calls(trace, c) : i > LastNs
        /\ HasCapBnd(jin.status) => Count(ctrace, "caps_set") = 1
        /\ ReportsSeccomp2(jin.status) => Count(ctrace, "seccomp_set") = 1

\* 1 when b holds, else 0.
One(b) == IF b THEN 1 ELSE 0

\* C8 as amended: when the command is started by a non-root user, every
\* element was read exactly once before the first join_namespace call (root
\* reads none); the control group, when one was read, was entered once, in the
\* parent, after the reads and before the first join_namespace call; the other
\* elements are applied by the child only, after all namespaces were entered:
\* cpu affinity and seccomp once when the target has them, the capability mask
\* once, and once more right after the user namespace was entered, and either
\* the user namespace is entered or drop_privs(nogroups) is called, once.
C8_ReadOnceApplyAsCoded ==
    Started =>
        /\ uid # 0 => ReadOnceBeforeNs
        /\ uid = 0 => \A c \in ExtractCalls : Count(trace, c) = 0
        /\ Count(trace, "set_cgroup") = One(jctx.cgroup)
        /\ \A i \in Calls(trace, "set_cgroup") :
              /\ i < FirstNs
              /\ \A c \in ExtractCalls : SeqMax(Calls(trace, c)) < i
        /\ Count(ctrace, "set_cgroup") = 0
        /\ \A c \in ApplyCalls \ {"set_cgroup"} : Count(trace, c) = 0
        /\ Count(ctrace, "set_cpu_affinity") = One(jctx.cpus)
        /\ Count(ctrace, "seccomp_set") = One(uid # 0 /\ ReportsSeccomp2(jin.status))
        /\ Count(ctrace, "caps_set") =
              One(uid # 0 /\ HasCapBnd(jin.status)) * (1 + jctx.noroot)
        /\ \A i \in Calls(ctrace, "caps_set") : ctrace[i].val = CapBndOf(jin.status)
        /\ (Count(ctrace, "caps_set") = 2) =>
              LET i == SeqMax(Calls(ctrace, "caps_set"))
              IN  ctrace[i - 1] = Ev("join_namespace", "user", 0)
        /\ Count(ctrace, "join_namespace") = jctx.noroot
        /\ Count(ctrace, "drop_privs") = 1 - jctx.noroot
        /\ \A i \in Calls(ctrace, "drop_privs") : ctrace[i].val = jctx.nogroups

\* C8 witness: a non-root user started a command in a sandbox with a control
\* group, a mask, seccomp, cpu affinity and a user namespace.
C8_Witness ==
    /\ uid # 0 /\ Started /\ jin.mode = "full"
    /\ jctx.cgroup /\ jctx.cpus /\ jctx.noroot = 1
    /\ HasCapBnd(jin.status) /\ ReportsSeccomp2(jin.status)
    /\ Count(ctrace, "caps_set") = 2

\* The place of the i-th call of the child in the order of section 4.7.
Rank(i) ==
    LET c == ctrace[i].call
    IN  CASE c = "set_cpu_affinity"     -> 1
          [] c = "caps_set"             ->
                 IF \E k \in 1..(i - 1) : ctrace[k].call = "join_namespace" THEN 8 ELSE 2
          [] c = "protocol_filter_load" -> 3
          [] c = "protocol_filter"      -> 4
          [] c = "seccomp_set"          -> 5
          [] c = "setenv"               -> 6
          [] c = "join_namespace"       -> 7
          [] c = "drop_privs"           -> 7
          [] c = "start_application"    -> 9
          [] OTHER                      -> 0

\* C9: the calls of the child come in the order cpu affinity, capability
\* filter, default protocol filter (non-root user only), configured protocol
\* filter, seccomp, environment, then the user namespace followed by the
\* capability filter, or drop_privs; start_application comes after all of
\* them, and by then every part of the context that is set has been applied.
C9_ReapplyOrder ==
    /\ \A i, j \in 1..Len(ctrace) :
          i < j => IF Rank(i) = 0 THEN TRUE ELSE Rank(i) < Rank(j)
    /\ Calls(ctrace, "protocol_filter_load") # {} => uid # 0
    /\ Started =>
          /\ Count(ctrace, "set_cpu_affinity") = One(jctx.cpus)
          /\ Count(ctrace, "protocol_filter_load") = One(uid # 0)
          /\ Count(ctrace, "protocol_filter") = One(jin.protocol)
          /\ Count(ctrace, "seccomp_set") = One(jctx.apply_seccomp = 1)
          /\ \E i \in Calls(ctrace, "setenv") : ctrace[i].val = 0
          /\ (\E i \in 1..Len(ctrace) : Rank(i) = 2) <=> (jctx.apply_caps = 1)
          /\ IF jctx.noroot = 1
                THEN /\ \E i \in Calls(ctrace, "join_namespace") : ctrace[i].val = 0
                     /\ Count(ctrace, "drop_privs") = 0
                     /\ (jctx.apply_caps = 1) <=> (\E i \in 1..Len(ctrace) : Rank(i) = 8)
             ELSE /\ Count(ctrace, "drop_privs") = 1
                  /\ Count(ctrace, "join_namespace") = 0

\* C9 witness: a command was started after every step of the list was taken,
\* the user namespace included.
C9_Witness ==
    /\ Started
    /\ \A r \in 1..9 : \E i \in 1..Len(ctrace) : Rank(i) = r

\* seccomp_set was called exactly when the status file of the target reports
\* Seccomp: 2.
SeccompIffTwo == (Calls(ctrace, "seccomp_set") # {}) <=> ReportsSeccomp2(jin.status)

\* C10 as claimed, the second half for every user: once the child is past the
\* seccomp step (it has called setenv), seccomp_set was called exactly when
\* the status file reports Seccomp: 2, and for a non-root user after
\* protocol_filter_load.
C10_SeccompIffTwoAnyUser ==
    (Calls(ctrace, "setenv") # {})
    => /\ SeccompIffTwo
       /\ uid # 0 =>
             \A i \in Calls(ctrace, "seccomp_set") :
                \E k \in Calls(ctrace, "protocol_filter_load") : k < i

\* C10 as amended: once the child is past the seccomp step (it has called
\* setenv), for a non-root user seccomp_set was called exactly when the status
\* file of the target reports Seccomp: 2, and then after
\* protocol_filter_load; for root neither call is made.
C10_SeccompAfterProtocol ==
    (Calls(ctrace, "setenv") # {})
    => /\ uid # 0 =>
             /\ SeccompIffTwo
             /\ \A i \in Calls(ctrace, "seccomp_set") :
                   \E k \in Calls(ctrace, "protocol_filter_load") : k < i
       /\ uid = 0 =>
             /\ Calls(ctrace, "seccomp_set") = {}
             /\ Calls(ctrace, "protocol_filter_load") = {}

\* C10 witness: a non-root user joined a target that reports Seccomp: 2 with
\* no protocol list configured, and the child has enforced seccomp.
C10_Witness ==
    /\ uid # 0 /\ ReportsSeccomp2(jin.status)
    /\ Calls(ctrace, "seccomp_set") # {}
    /\ ~jin.protocol

(***************************************************************************)
(* Properties of join, continued (checked under SpecJoin)                  *)
(***************************************************************************)
\* C11: once the parent has waited for the child and left, its exit status
\* is the exit status of the child.
C11_ParentExitsWithChildStatus ==
    (jpc = "exited" /\ Calls(trace, "waitpid") # {}) => jexit.parent = jexit.child

\* The namespaces each mode asks for, in the order of section 4.7.
RequestedNs(mode) ==
    IF mode = "net" THEN <<"net">>
    ELSE IF mode = "mnt" THEN <<"mnt">>
    ELSE <<"ipc", "net", "pid", "uts", "mnt">>

\* The join_namespace calls of the parent, in order.
NsCalls == SelectSeq(trace, LAMBDA e : e.call = "join_namespace")

\* C12: when join() forks, it has entered exactly the namespaces of the
\* mode, one successful join_namespace call each; a failed join_namespace
\* call is the last call of the parent, which has left with status 1 without
\* forking.
C12_RequestedNamespaces ==
    /\ Calls(trace, "fork") # {} =>
          /\ Len(NsCalls) = Len(RequestedNs(jin.mode))
          /\ \A i \in 1..Len(NsCalls) :
                NsCalls[i].ns = RequestedNs(jin.mode)[i] /\ NsCalls[i].val = 0
          /\ \A i \in Calls(trace, "join_namespace") :
                i < SeqMin(Calls(trace, "fork"))
    /\ \A i \in Calls(trace, "join_namespace") :
          trace[i].val # 0 =>
             /\ i = Len(trace)
             /\ jpc = "exited" /\ jexit.parent = 1
             /\ Calls(trace, "fork") = {} /\ cpc = "none"

\* C12 witness: a full join has entered its five namespaces and forked.
C12_Witness ==
    /\ jin.mode = "full" /\ Calls(trace, "fork") # {} /\ cpc = "chroot"
    /\ Len(NsCalls) = 5

\* C13 as claimed: a command started by a join that is not network-only runs
\* after a chroot that succeeded; a network-only join never calls chroot.
C13_CommandRunsChrooted ==
    /\ (Started /\ jin.mode # "net") =>
          \E i \in Calls(ctrace, "chroot") : ctrace[i].val = 0
    /\ jin.mode = "net" => Calls(ctrace, "chroot") = {}

\* C13 as amended: a child of a join that is not network-only calls chroot
\* once, as its first call, and goes on whatever the result; a network-only
\* join never calls chroot.
C13_ChrootAttempted ==
    /\ (cpc \notin {"none", "chroot"} /\ jin.mode # "net") =>
          /\ Calls(ctrace, "chroot") = {1}
          /\ ctrace[1].ns = jin.pid
    /\ jin.mode = "net" => Calls(ctrace, "chroot") = {}

\* C13 witness: a mount-only join started its command although the chroot
\* had failed.
C13_Witness ==
    /\ Started /\ jin.mode = "mnt"
    /\ \E i \in Calls(ctrace, "chroot") : ctrace[i].val = -1

\* drop_privs gives up the effective uid of root for good: the effective uid
\* of the child is that of the parent at the fork until drop_privs is called.
ChildEuid == IF Calls(ctrace, "drop_privs") # {} THEN uid ELSE euid

\* C14: the effective uid is that of the user whenever the process has
\* forked, has left, or has reached start_application.
C14_EuidRestored ==
    /\ Calls(trace, "fork") # {} => euid = uid
    /\ jpc = "exited" => euid = uid
    /\ Started => ChildEuid = uid

(***************************************************************************)
(* Properties of the staging bootstrap, fs_overlayfs and fs_chroot         *)
(* (checked under SpecBoot)                                                *)
(***************************************************************************)
\* The chroot calls that succeeded.
ChrootAt == {i \in BCalls(btrace, "chroot") : btrace[i].opt # "fail"}

\* The mounts of the staging tmpfs that succeeded.
StagingMounts ==
    {i \in BCalls(btrace, "mount") :
        btrace[i].src = "tmpfs" /\ btrace[i].dst = "RUN_MNT_DIR" /\ btrace[i].opt # "fail"}

\* The events from position s + 1 up to the next chroot.
Seg(s) ==
    LET later == {i \in ChrootAt : i > s}
    IN  (s + 1)..(IF later = {} THEN Len(btrace) ELSE SeqMin(later) - 1)

BootstrapOnce(s) ==
    LET calls  == BCalls(btrace, "fs_build_mnt_dir") \cap Seg(s)
        mounts1 == StagingMounts \cap Seg(s)
        made   == (BCalls(btrace, "mkdir") \cup BCalls(btrace, "fopen")) \cap Seg(s)
    IN  /\ Cardinality(mounts1) <= 1
        /\ \A m \in mounts1 :
              /\ calls # {} /\ SeqMin(calls) < m
              /\ \A i \in calls \ {SeqMin(calls)} : m < i
        /\ (calls # {} /\ BCalls(btrace, "exit") \cap Seg(s) = {}) =>
              Cardinality(mounts1) = 1
        /\ \A i, j \in made : btrace[i].dst = btrace[j].dst => i = j

\* A step that is one more call of fs_build_mnt_dir or fs_build_firejail_dir
\* by the program.
BootstrapCall ==
    /\ Len(btrace') > Len(btrace)
    /\ btrace'[Len(btrace) + 1].call = "call"

\* The last stretch of calls holds a fs_build_mnt_dir call already.
BootstrapDone ==
    LET s == IF ChrootAt = {} THEN 0 ELSE SeqMax(ChrootAt)
    IN  BCalls(btrace, "fs_build_mnt_dir") \cap Seg(s) # {}

\* C16: from the start of the process, and from each chroot of fs_chroot,
\* up to the next chroot, the staging tmpfs is mounted exactly once, by the
\* first fs_build_mnt_dir call, and nothing is created twice; a call of
\* fs_build_mnt_dir or fs_build_firejail_dir made after a fs_build_mnt_dir
\* call leaves the flag, the staging tree and the exit status as they were.
C16_BootstrapIdempotent ==
    /\ [](\A s \in {0} \cup {c \in ChrootAt : btrace[c].src = "fs_chroot"} :
             BootstrapOnce(s))
    /\ [][(BootstrapCall /\ BootstrapDone) =>
             /\ tmpfs_mounted' = tmpfs_mounted
             /\ run_fs' = run_fs
             /\ bexit' = bexit
             /\ BCalls(btrace', "mount") = BCalls(btrace, "mount")
             /\ BCalls(btrace', "mkdir") = BCalls(btrace, "mkdir")]_vars

\* C16 witness: three calls, two of them of fs_build_mnt_dir, on a root that
\* had no staging tree, with no chroot: one mount.
C16_Witness ==
    /\ bpc = "run" /\ ChrootAt = {}
    /\ Cardinality(BCalls(btrace, "call")) = 3
    /\ Cardinality(BCalls(btrace, "fs_build_mnt_dir")) >= 2
    /\ Cardinality(BCalls(btrace, "mkdir")) = 9
    /\ Cardinality(StagingMounts) = 1

\* The releases of the model, read by eye: 3.18.0, 3.10.0, 3.17.4, 2.6.32,
\* 4.4.0.
KernelVersion(release) ==
    CASE release = <<"3", ".", "1", "8", ".", "0">> -> <<3, 18>>
      [] release = <<"3", ".", "1", "0", ".", "0">> -> <<3, 10>>
      [] release = <<"3", ".", "1", "7", ".", "4">> -> <<3, 17>>
      [] release = <<"2", ".", "6", ".", "3", "2">> -> <<2, 6>>
      [] release = <<"4", ".", "4", ".", "0">>      -> <<4, 4>>
      [] OTHER                                      -> <<0, 0>>

\* The overlay mounts made on oroot.
OverlayMounts ==
    {i \in BCalls(btrace, "mount") : btrace[i].dst = "oroot" /\ btrace[i].opt # "fail"}

\* C17: once fs_overlayfs has run on a kernel of a known version: below 3 the
\* process has left with status 1 and no overlay was mounted; on 3.0 to 3.17
\* no overlay is mounted by the modern driver, a keep request has ended in
\* exit status 1 without an overlay, and a root that was entered is an
\* overlayfs mount with lowerdir and upperdir only; from 3.18 on no overlay
\* is mounted by the legacy driver, and a root that was entered is an overlay
\* mount with a workdir.
C17_DriverByKernel ==
    LET v == KernelVersion(bin.release)
    IN  (BCalls(btrace, "fs_overlayfs") # {} /\ v # <<0, 0>>) =>
           IF v[1] < 3
              THEN bexit = 1 /\ OverlayMounts = {} /\ ChrootAt = {}
           ELSE IF v[1] = 3 /\ v[2] < 18
              THEN /\ \A i \in OverlayMounts :
                         btrace[i].src = "overlayfs" /\ btrace[i].opt = "lowerdir,upperdir"
                   /\ bin.keep => (bexit = 1 /\ OverlayMounts = {} /\ ChrootAt = {})
                   /\ ChrootAt # {} => OverlayMounts # {}
           ELSE /\ \A i \in OverlayMounts :
                      btrace[i].src = "overlay"
                      /\ btrace[i].opt = "lowerdir,upperdir,workdir"
                /\ ChrootAt # {} => OverlayMounts # {}

\* C17 witness: on 3.18.0 a kept overlay was entered.
C17_Witness ==
    /\ bin.release = <<"3", ".", "1", "8", ".", "0">> /\ bin.keep
    /\ ChrootAt # {} /\ OverlayMounts # {} /\ bpc = "run"

\* The exits of fs_overlayfs for a kernel that cannot do what is asked.
KernelErrors ==
    {i \in BCalls(btrace, "exit") :
        btrace[i].src \in {"minimum kernel version required 3.x",
                           "option --overlay= not available for kernels older than 3.18"}}

\* C18: when fs_overlayfs ends in a kernel-capability error, it has made no
\* mount call.
C18_KernelErrorBeforeMount ==
    \A x \in KernelErrors :
        \A m \in BCalls(btrace, "mount") : m < SeqMin(BCalls(btrace, "fs_overlayfs"))

(***************************************************************************)
(* Properties of fs_blacklist, continued (checked under SpecFs)            *)
(***************************************************************************)
\* Entry i is a bind entry whose source or destination did not exist when
\* it was reached.
BindOfMissing(i) ==
    /\ profile[i].kw = "bind "
    /\ LET ds == split_comma(profile[i].arg)
       IN  /\ ds # <<>>
           /\ \E k \in 1..2 : Realpath(ds[k], MountsBefore(i)).err = "ENOENT"

\* C19: a bind whose source or destination does not exist reports an error,
\* mounts nothing, changes no owner and no mode, and the interpreter goes on.
C19_BindMissingSkipped ==
    \A i \in 1..Len(profile) :
        BindOfMissing(i) =>
            /\ \E o \in out : o.ent = i /\ o.kind = "error-bind"
            /\ ~\E mr \in mounts : mr.ent = i
            /\ ~\E o \in out : o.ent = i /\ o.kind \in {"chown", "chmod"}
            /\ GoesOn(i)

\* C19 witness: bind /home/user/notes,/data was skipped with an error, and
\* the entry after it denied .bashrc.
C19_Witness ==
    /\ Len(profile) = 2
    /\ profile[1] = Entry("bind ", p_notes \o <<",">> \o p_data)
    /\ BindOfMissing(1)
    /\ \E mr \in mounts : mr.ent = 2 /\ mr.dst = p_bashrc /\ Deny(mr)

\* Entry i is none of the forms fs_blacklist knows and none it ignores.
Unrecognized(d) ==
    /\ d.kw \notin BlacklistKw \cup TransformKw \cup {"bind ", "noblacklist ", "whitelist "}
    /\ d.kw # "" /\ d.arg # <<>>

\* C20: an entry that is not recognized ends the run: it is the last entry
\* fs_blacklist has processed, and no entry after it has mounted anything.
C20_InvalidLineFatal ==
    \A i \in 1..Len(profile) :
        Unrecognized(profile[i]) =>
            /\ Len(profile) = i
            /\ ~\E mr \in mounts : mr.ent > i

(***************************************************************************)
(* fs_rdwr and its refusal                                                 *)
(***************************************************************************)
\* What realpath gives for the argument of entry i when the entry is reached.
TargetOf(i) == Realpath(expand_home(profile[i].arg), MountsBefore(i))

\* globbing hands the argument of entry i, a plain name, to disable_file.
PassedOn(i) == OkayToBlacklist(expand_home(profile[i].arg), NblBefore(i))

\* Entry i is a read-write directive whose path exists when fs_rdwr is called
\* on it.
RdwrOnExisting(i) ==
    /\ profile[i].kw = "read-write "
    /\ PassedOn(i)
    /\ TargetOf(i).err = "ok"
    /\ Visible(TargetOf(i).path, MountsBefore(i))

\* The user is root or owns the target of entry i.
RdwrAllowed(i) == uid = 0 \/ Stat(TargetOf(i).path, MountsBefore(i)).uid = uid

\* What entry i has mounted, logged and printed.
MountsOf(i) == {mr \in mounts : mr.ent = i}
LogOf(i)    == {l \in log : l.ent = i}
OutOf(i)    == {o \in out : o.ent = i}

C22_RdwrRefusalFatal ==
    \A i \in 1..Len(profile) :
        (RdwrOnExisting(i) /\ ~RdwrAllowed(i)) =>
            /\ Len(profile) = i
            /\ ~\E mr \in mounts : mr.ent > i

(***************************************************************************)
(* Transforms applied one after the other to the same path                 *)
(***************************************************************************)
\* Entry i is the transform kw, and its path exists when the transform is
\* called on it.
Transforms(i, kw) ==
    /\ profile[i].kw = kw
    /\ PassedOn(i)
    /\ TargetOf(i).err = "ok"
    /\ Visible(TargetOf(i).path, MountsBefore(i))

\* The flags of the mount on top of the target of entry i once entry j is done.
FlagsAfter(i, j) == MountFlags(TargetOf(i).path, mounts, j)

\* What the transform kw is there to set.
FlagsOf(kw) ==
    IF kw = "read-only " THEN {"MS_RDONLY"} ELSE {"MS_NOEXEC", "MS_NODEV", "MS_NOSUID"}

\* C23: read-only applied twice in a row to the same path, and noexec applied
\* twice in a row to the same path, end as one application does: the second
\* one reports nothing, the process goes on, the path still has the flags the
\* transform sets, and its flags are the ones it had after the first.
C23_TransformIdempotent ==
    \A kw \in {"read-only ", "noexec "} :
        \A i \in 1..(Len(profile) - 1) :
            ( /\ Transforms(i, kw) /\ Transforms(i + 1, kw)
              /\ TargetOf(i + 1).path = TargetOf(i).path ) =>
                /\ OutOf(i + 1) = {}
                /\ GoesOn(i + 1)
                /\ FlagsOf(kw) \subseteq FlagsAfter(i, i + 1)
                /\ FlagsAfter(i, i + 1) = FlagsAfter(i, i)
                /\ \E l \in LogOf(i + 1) : l.path = TargetOf(i).path

\* read-only has been applied twice to one path: two remounts with MS_RDONLY
\* are in the mount table for it.
C23_Witness ==
    /\ Len(profile) = 2
    /\ Transforms(1, "read-only ") /\ Transforms(2, "read-only ")
    /\ TargetOf(2).path = TargetOf(1).path
    /\ Cardinality({mr \in mounts : mr.dst = TargetOf(1).path /\ "MS_RDONLY" \in mr.flags}) = 2

\* C30: after read-only and then noexec on the same existing path, the path
\* is both read-only and no-exec: the later transform has not cleared the
\* read-only flag.
C30_TransformsAccumulate ==
    \A i \in 1..(Len(profile) - 1) :
        ( /\ Transforms(i, "read-only ") /\ Transforms(i + 1, "noexec ")
          /\ TargetOf(i + 1).path = TargetOf(i).path ) =>
            {"MS_RDONLY", "MS_NOEXEC"} \subseteq FlagsAfter(i, i + 1)

(***************************************************************************)
(* tmpfs                                                                   *)
(***************************************************************************)
\* C24: a tmpfs directive on an existing directory mounts an empty tmpfs on
\* it, so that nothing that was below it is seen any more, and gives the new
\* mount point the owner and group stat showed before the mount; on anything
\* that is not a directory it mounts nothing, prints a warning, and the
\* interpreter goes on.
C24_TmpfsKeepsOwner ==
    \A i \in 1..Len(profile) :
        Transforms(i, "tmpfs ") =>
            LET p == TargetOf(i).path
                s == Stat(p, MountsBefore(i))
            IN  IF s.type = "dir"
                   THEN /\ \E mr \in MountsOf(i) :
                              mr.src = TmpfsSrc /\ mr.dst = p /\ mr.fstype = "tmpfs"
                        /\ \A mr \in MountsOf(i) : mr.src = TmpfsSrc /\ mr.dst = p
                        /\ \E o \in OutOf(i) : o.kind = "chown" /\ o.path = p
                        /\ \A o \in OutOf(i) :
                              o.kind = "chown" /\ o.uid = s.uid /\ o.gid = s.gid
                        /\ \A n \in FS : IsAncestor(p, n.path) => ~Visible(n.path, mounts)
                ELSE /\ MountsOf(i) = {}
                     /\ LogOf(i) = {}
                     /\ \E o \in OutOf(i) : o.kind = "warning-tmpfs" /\ o.path = p
                     /\ \A o \in OutOf(i) : o.kind = "warning-tmpfs"
                     /\ GoesOn(i)

\* tmpfs has been refused on a file, and has then replaced a directory that a
\* user other than root owns.
C24_Witness ==
    /\ Len(profile) = 2
    /\ Transforms(1, "tmpfs ") /\ Stat(TargetOf(1).path, MountsBefore(1)).type = "file"
    /\ Transforms(2, "tmpfs ") /\ Stat(TargetOf(2).path, MountsBefore(2)).uid # 0
    /\ \E o \in OutOf(2) : o.kind = "chown" /\ o.uid # 0

(***************************************************************************)
(* Properties of the chroot path (checked under SpecBoot)                  *)
(***************************************************************************)
\* The chroot directory of this sandbox has all that is asked of it.
RootDirSound ==
    /\ bin.rootdir.exists
    /\ bin.rootdir.uid = 0
    /\ {"/dev", "/proc", "/tmp", "/var/tmp"} \subseteq bin.rootdir.has
    /\ (bin.x11env => "/tmp/.X11-unix" \in bin.rootdir.has)

\* C25: fs_check_chroot_dir returns 0 exactly when the chroot directory
\* exists, is owned by root, holds /dev, /proc, /tmp and /var/tmp, and holds
\* /tmp/.X11-unix too when FIREJAIL_X11 is set; otherwise it returns 1 and
\* has printed an error.
C25_CheckChrootDir ==
    \A i \in BCalls(btrace, "fs_check_chroot_dir") :
        /\ btrace[i].opt \in {"0", "1"}
        /\ (btrace[i].opt = "0") <=> RootDirSound
        /\ (btrace[i].opt = "1") => btrace[i].src # ""

\* The check has passed a directory with FIREJAIL_X11 set.
C25_Witness ==
    /\ bin.x11env /\ RootDirSound
    /\ \E i \in BCalls(btrace, "fs_check_chroot_dir") : btrace[i].opt = "0"

\* Event i is a copy of resolv.conf that failed.
CopyFailed(i) == btrace[i].call = "copy_file" /\ btrace[i].opt = "fail"

\* Event i is the exit taken because etc/resolv.conf of the new root is a
\* symbolic link.
ResolvLinkExit(i) == btrace[i].call = "exit" /\ btrace[i].src = "invalid resolv.conf file"

\* The chroot call is made after event i, and when it succeeds the flag is
\* reset and fs_build_mnt_dir is run again after it.
ChrootGoesOn(i) ==
    \E j \in BCalls(btrace, "chroot") :
        /\ j > i
        /\ btrace[j].opt # "fail" =>
              /\ \E k \in BCalls(btrace, "tmpfs_mounted") : k > j
              /\ \E k \in BCalls(btrace, "fs_build_mnt_dir") : k > j

Candidates(i) ==
    LET pats == OperationPatterns(profile[i].arg)
    IN  UNION {Forwarded(pats[k], NblBefore(i), MountsBefore(i)) : k \in 1..Len(pats)}

\* What entry i has mounted and logged for the candidate c.
MountsFor(i, c) == {mr \in MountsOf(i) : mr.cand = c}
LogFor(i, c)    == {l \in LogOf(i) : l.cand = c}

\* Exactly one mount was made for candidate c of entry i, the donor on the
\* name as given, and it was logged under the keyword of the entry.
ForcedWith(i, c, donor) ==
    /\ MountsFor(i, c) = {MountRec(i, c, donor, c, "none", {"MS_BIND"})}
    /\ \E l \in LogFor(i, c) :
          /\ l.path = c
          /\ l.msg = IF profile[i].kw = "blacklist " THEN "blacklist" ELSE "blacklist-nolog"

\* C26: when realpath fails with EACCES on a denial target, the directory
\* donor is bound on the raw name, and the file donor only when that bind
\* fails; the first bind that succeeds is the only mount made and it is
\* logged; when both fail nothing is mounted or logged and the interpreter
\* goes on.  When realpath fails for another reason nothing is mounted.
C26_ForcedDenial ==
    \A i \in 1..Len(profile) :
        profile[i].kw \in BlacklistKw =>
            \A c \in Candidates(i) :
                LET r == Realpath(c, MountsBefore(i))
                IN  /\ r.err = "EACCES" =>
                          IF NodeAt(c).mountable /\ NodeAt(c).type = "dir"
                             THEN ForcedWith(i, c, RUN_RO_DIR)
                          ELSE IF NodeAt(c).mountable
                             THEN ForcedWith(i, c, RUN_RO_FILE)
                          ELSE /\ MountsFor(i, c) = {} /\ LogFor(i, c) = {}
                               /\ GoesOn(i)
                    /\ r.err = "ENOENT" => MountsFor(i, c) = {} /\ LogFor(i, c) = {}

\* blacklist /mnt/* has covered one unreachable name with the directory
\* donor and one with the file donor, has given up on a third, and the next
\* entry has been processed.
C26_Witness ==
    /\ Len(profile) = 2
    /\ profile[1].kw = "blacklist "
    /\ {p_fuse_d, p_fuse_f, p_fuse_x} \subseteq Candidates(1)
    /\ ForcedWith(1, p_fuse_d, RUN_RO_DIR)
    /\ ForcedWith(1, p_fuse_f, RUN_RO_FILE)
    /\ MountsFor(1, p_fuse_x) = {}

\* The candidate c of entry i is a name that exists when the entry is reached.
Existing(i, c) ==
    /\ Realpath(c, MountsBefore(i)).err = "ok"
    /\ Visible(Realpath(c, MountsBefore(i)).path, MountsBefore(i))

\* The candidate is itself a symbolic link, is called /bin or /usr/bin, and
\* leads to a directory.
BinLinkByName(i, c) ==
    /\ c \in {p_bin, p_usrbin}
    /\ is_link(c, MountsBefore(i))
    /\ Stat(Realpath(c, MountsBefore(i)).path, MountsBefore(i)).type = "dir"

\* C27: of the existing targets of a blacklist, the ones left alone (a
\* warning, no donor mounted) are exactly the symbolic links called /bin or
\* /usr/bin that lead to a directory; every other one, a symbolic link of
\* another name that leads to /bin or /usr/bin included, is covered by a
\* donor.
C27_ExemptionByName ==
    \A i \in 1..Len(profile) :
        profile[i].kw \in BlacklistKw =>
            \A c \in Candidates(i) :
                Existing(i, c) =>
                    IF BinLinkByName(i, c)
                       THEN /\ MountsFor(i, c) = {}
                            /\ \E o \in OutOf(i) : o.kind = "warning-binlink" /\ o.cand = c
                    ELSE \E mr \in MountsFor(i, c) :
                            Deny(mr) /\ mr.dst = Realpath(c, MountsBefore(i)).path

(***************************************************************************)
(* globbing and the exception patterns (checked under SpecFs)              *)
(***************************************************************************)
\* The names glob returns for entry i, without the "." and ".." entries.
Globbed(i) ==
    LET pats == OperationPatterns(profile[i].arg)
        all  == UNION {Glob(pats[k], MountsBefore(i)) : k \in 1..Len(pats)}
    IN  {c \in all : gnu_basename(c) \notin {<<".">>, <<".", ".">>}}

\* The name c matches pattern j of the array, a wildcard standing for no "/".
MatchesException(i, c, j) == Fnmatch(NblBefore(i)[j].pat, c, TRUE)

\* The name c matches some exception pattern present when entry i is reached.
Excepted(i, c) == \E j \in 1..Len(NblBefore(i)) : MatchesException(i, c, j)

\* Comparing c with the patterns in order comes to one that cannot be
\* compared before it comes to one that matches.
Uncomparable(i, c) ==
    \E j \in 1..Len(NblBefore(i)) :
        /\ \E n \in 1..Len(NblBefore(i)[j].pat) : NblBefore(i)[j].pat[n] = InvalidByte
        /\ \A k \in 1..(j - 1) : ~MatchesException(i, c, k)

\* Entry i has done something for the candidate c.
Touched(i, c) == MountsFor(i, c) # {} \/ \E o \in OutOf(i) : o.cand = c

\* A denial of c has something to show: c exists, or realpath fails on it
\* with EACCES and a donor can be bound on it.
Deniable(i, c) ==
    \/ Existing(i, c)
    \/ Realpath(c, MountsBefore(i)).err = "EACCES" /\ NodeAt(c).mountable

\* C28: for a blacklist entry, when a comparison with an exception pattern
\* fails the process exits (exit(1), fs_pc = "exit") with the error printed
\* and no later entry is processed; otherwise a name glob returned is left
\* alone exactly when it matches one of the exception patterns with a
\* wildcard standing for no "/", and every other name is handed to
\* disable_file, which denies it.
C28_SuppressedIffExcepted ==
    \A i \in 1..Len(profile) :
        profile[i].kw \in BlacklistKw =>
            LET names == Globbed(i)
            IN  IF \E c \in names : Uncomparable(i, c)
                   THEN /\ fs_pc = "exit" /\ Len(profile) = i
                        /\ \E o \in OutOf(i) : o.kind = "error-fnmatch"
                ELSE /\ GoesOn(i)
                     /\ \A c \in names :
                           /\ Excepted(i, c) => ~Touched(i, c)
                           /\ (~Excepted(i, c) /\ Deniable(i, c)) => Touched(i, c)

\* With noblacklist /home/* in force, blacklist /home/user/.ssh has denied
\* the directory.
C28_Witness ==
    /\ Len(profile) = 2
    /\ profile[1] = Entry("noblacklist ", p_home \o <<"/", "*">>)
    /\ profile[2] = Entry("blacklist ", p_ssh)
    /\ \E mr \in MountsFor(2, p_ssh) : Deny(mr) /\ mr.dst = p_ssh

\* C31: a denial donor mounted by a blacklist entry never lands on a path
\* that matches an exception pattern present when the entry was reached,
\* whatever name the entry used to reach that path.
C31_ExceptedNeverCovered ==
    \A mr \in mounts :
        (Deny(mr) /\ profile[mr.ent].kw \in BlacklistKw) =>
            \A j \in 1..Len(NblBefore(mr.ent)) :
                ~Fnmatch(NblBefore(mr.ent)[j].pat, mr.dst, TRUE)

(***************************************************************************)
(* Signals and the two processes of join (checked under SpecJoin)          *)
(***************************************************************************)
\* C32: whenever SIGTERM has reached the parent after fork, the parent has
\* called ctflush after the signal arrived, before it was gone.
C32_SigtermFlushes ==
    \A i \in Calls(trace, "SIGTERM") :
        \E j \in Calls(trace, "ctflush") : j > i

\* The parent is gone and the child was forked.
ParentGone == jpc \in {"exited", "killed"} /\ Calls(trace, "fork") # {} /\ cpc # "none"

\* C33: the child does not outlive the parent: once a signal has ended the
\* parent after fork, the child is not running any more.  (The death signal
\* is sent at the moment the parent dies or not at all, so a child that is
\* still running then is never killed by it.)
C33_ChildNeverOutlives ==
    (ParentGone /\ Calls(trace, "SIGTERM") # {}) => ~ChildAlive

====
